---- MODULE Spec2Model ----
(***************************************************************************)
(* Relay protocol client and session/delegation manager of the RISE        *)
(* mobile example: PortoClient (src/lib/porto/client.ts), SessionManager   *)
(* (src/lib/porto/session.ts), the simple-porto functions                  *)
(* (src/lib/simple-porto.ts) and the Porto class (lib/porto.ts).           *)
(***************************************************************************)
EXTENDS Integers, Sequences, FiniteSets, TLC

(***************************************************************************)
(* Bounds of the model.                                                    *)
(***************************************************************************)
MaxAttempts == 3
MaxKeys == 3
MaxTicks == 2

(***************************************************************************)
(* State.                                                                  *)
(***************************************************************************)
\* Status polling (waitForTransaction)
VARIABLES
  wImpl,     \* "client" (PortoClient) or "simple" (simple-porto)
  wBundle,   \* the bundleId argument
  wMax,      \* the maxAttempts argument
  wI,        \* the loop counter (i / attempts)
  wPc,       \* "idle", "poll" (a wallet_getCallsStatus request is in flight), "done"
  wHist,     \* the wallet_getCallsStatus exchanges made so far: [bundle, resp]
  wResult    \* how the call settled: None, or [kind, val]

wvars == <<wImpl, wBundle, wMax, wI, wPc, wHist, wResult>>

\* The secure store, the clock, the SessionManagers and their PortoClients
VARIABLES
  store,      \* expo-secure-store: entry name -> stored string, or None
  now,        \* Date.now()
  ticks,      \* how many times the clock advanced
  generated,  \* the keys generatePrivateKey returned so far, each with the
              \* role of the place that generated it ("main" / "session")
  mgr,        \* SessionManager instance -> its fields
  client,     \* the PortoClient of each SessionManager -> its `account`
  proc,       \* call in progress: its operation, position and locals
  trace,      \* relay exchanges of the call in progress or last finished
  fx,         \* store writes and key generations made by that call
  pre,        \* store, manager and client as they were when the call began
  lastDone    \* the operation that finished last, and how it settled

svars == <<store, now, ticks, generated, mgr, client, proc, trace, fx, pre, lastDone>>

VARIABLES
  porto       \* the Porto singleton (lib/porto.ts): its fields

\* What the SessionManager / PortoClient actions leave alone.
\* An address handed to serializePublicKey and what successive applications
\* of it returned.
VARIABLES
  keyIn,      \* the address argument, or None when nothing is being serialized
  keyOut      \* the results: of the argument, then of the previous result
kvars == <<keyIn, keyOut>>

nonSession == <<wvars, porto, kvars>>
\* What the status-polling actions leave alone.
nonWait == <<svars, porto, kvars>>

(***************************************************************************)
(* Values shared by every component.                                       *)
(***************************************************************************)
None == [t |-> "none"]

\* A thrown Error: the message text and the number interpolated into it
\* (-1 when the message carries no number).
Err(msg, code) == [t |-> "error", msg |-> msg, code |-> code]

Return(v) == [ok |-> TRUE, val |-> v]
Throw(e) == [ok |-> FALSE, val |-> e]

\* The value of a status object's `status` field: a number or a string.
NumStatus(n) == [t |-> "num", n |-> n]
StrStatus(s) == [t |-> "str", s |-> s]

\* What one HTTP exchange with the relay can produce.
NetFail == [net |-> "fail", httpOk |-> FALSE, httpStatus |-> 0,
            hasError |-> FALSE, errMsg |-> "", result |-> None]
HttpFail(code) == [net |-> "ok", httpOk |-> FALSE, httpStatus |-> code,
                   hasError |-> FALSE, errMsg |-> "", result |-> None]
RelayErr(msg) == [net |-> "ok", httpOk |-> TRUE, httpStatus |-> 200,
                  hasError |-> TRUE, errMsg |-> msg, result |-> None]
RelayOk(res) == [net |-> "ok", httpOk |-> TRUE, httpStatus |-> 200,
                 hasError |-> FALSE, errMsg |-> "", result |-> res]

IsTransportFailure(r) == r.net = "fail" \/ ~r.httpOk

\* fetch() rejecting: the underlying network exception.
NetworkError == Err("Network error", -1)

(***************************************************************************)
(* PortoClient.rpcCall: one HTTP exchange resolved to exactly one outcome. *)
(***************************************************************************)
rpcCall_NoStatusCheck(r) ==
  IF r.net = "fail" THEN Throw(NetworkError)
  ELSE IF r.hasError
       THEN Throw(Err(IF r.errMsg # "" THEN r.errMsg ELSE "RPC call failed", -1))
  ELSE Return(r.result)
rpcCall(r) ==
  IF r.net = "fail" THEN Throw(NetworkError)
  ELSE IF ~r.httpOk THEN Throw(Err("HTTP error! status: ", r.httpStatus))
  ELSE IF r.hasError
       THEN Throw(Err(IF r.errMsg # "" THEN r.errMsg ELSE "RPC call failed", -1))
  ELSE Return(r.result)

(***************************************************************************)
(* simple-porto relayCall: throws on transport failure, otherwise returns  *)
(* the whole response body, error envelope included.                       *)
(***************************************************************************)
relayCall(r) ==
  IF r.net = "fail" THEN Throw(NetworkError)
  ELSE IF ~r.httpOk THEN Throw(Err("HTTP error! status: ", r.httpStatus))
  ELSE Return([hasError |-> r.hasError, errMsg |-> r.errMsg, result |-> r.result])

\* Reading a property of `undefined`.
TypeError == Err("TypeError: cannot read properties of undefined", -1)

(***************************************************************************)
(* Status polling: PortoClient.waitForTransaction and simple-porto         *)
(* waitForTransaction.                                                     *)
(***************************************************************************)

BundleIds == {"0xbundleid", "0xother"}

StatusValues == {NumStatus(0), NumStatus(1), NumStatus(200), NumStatus(201),
                 NumStatus(400), NumStatus(500), StrStatus("success")}
Receipts == {None, [status |-> "0x1"]}

StatusObject(s, rc) == [t |-> "status", status |-> s, receipts |-> rc]

PollResponses ==
  {RelayOk(StatusObject(s, rc)) : s \in StatusValues, rc \in Receipts}
    \cup {HttpFail(500), NetFail, RelayErr("Invalid request")}

Resolved(v) == [kind |-> "resolved", val |-> v]
Rejected(e) == [kind |-> "rejected", val |-> e]

\* client.ts:204  status.status === 200 || status.status === 1
ClientIsSuccess_AnyNumber(s) == s.t = "num"
ClientIsSuccess(s) == s.t = "num" /\ (s.n = 200 \/ s.n = 1)
\* client.ts:207  status.status >= 400 (false for a string)
ClientIsFailure(s) == s.t = "num" /\ s.n >= 400
\* simple-porto.ts:200  status.status === 200 || status.status === 'success'
SimpleIsSuccess_OnlyString(s) == s.t = "str" /\ s.s = "success"
SimpleIsSuccess(s) == (s.t = "num" /\ s.n = 200) \/ (s.t = "str" /\ s.s = "success")

\* client.ts:211  the catch clause rethrows on the last attempt only
ClientCatchRethrows(i, max) == i = max - 1
\* client.ts:201 / simple-porto.ts:196  the loop conditions
ClientLoopContinues_OffByOne(i, max) == i <= max
ClientLoopContinues(i, max) == i < max
SimpleLoopContinues(attempts, max) == attempts < max

WaitInit ==
  /\ wImpl = "client" /\ wBundle = "0xbundleid" /\ wMax = 1
  /\ wI = 0 /\ wPc = "idle" /\ wHist = <<>> /\ wResult = None

\* The call: the loop is entered (maxAttempts >= 1) and the first
\* wallet_getCallsStatus request is sent.
waitForTransaction(impl, bundleId, maxAttempts) ==
  /\ wPc \in {"idle", "done"}
  /\ wImpl' = impl /\ wBundle' = bundleId /\ wMax' = maxAttempts
  /\ wI' = 0 /\ wHist' = <<>>
  /\ wPc' = IF (IF impl = "client" THEN ClientLoopContinues(0, maxAttempts)
                                    ELSE SimpleLoopContinues(0, maxAttempts))
            THEN "poll" ELSE "done"
  /\ wResult' = IF wPc' = "done" THEN Rejected(Err("Transaction timeout", -1)) ELSE None
  /\ UNCHANGED nonWait

\* Outcome of one iteration of PortoClient.waitForTransaction's loop body
\* (client.ts:202-212): "return", "throw" or "next".
ClientIteration(r, i, max) ==
  LET out == rpcCall(r)
      thrown == IF ~out.ok THEN out.val
                ELSE IF out.val.t # "status" THEN TypeError
                ELSE IF ClientIsSuccess(out.val.status) THEN None
                ELSE IF ClientIsFailure(out.val.status)
                     THEN Err("Transaction failed with status ", out.val.status.n)
                ELSE None
  IN IF out.ok /\ out.val.t = "status" /\ ClientIsSuccess(out.val.status)
       THEN [do |-> "return", val |-> out.val]
     ELSE IF thrown # None /\ ClientCatchRethrows(i, max)
       THEN [do |-> "throw", val |-> thrown]
     ELSE [do |-> "next", val |-> None]

\* A wallet_getCallsStatus response arrives in PortoClient.waitForTransaction.
ClientPoll(r) ==
  /\ wPc = "poll" /\ wImpl = "client"
  /\ wHist' = Append(wHist, [bundle |-> wBundle, resp |-> r])
  /\ LET it == ClientIteration(r, wI, wMax)
     IN CASE it.do = "return" ->
               /\ wResult' = Resolved(it.val) /\ wPc' = "done" /\ wI' = wI
          [] it.do = "throw" ->
               /\ wResult' = Rejected(it.val) /\ wPc' = "done" /\ wI' = wI
          [] OTHER ->
               /\ wI' = wI + 1
               /\ IF ClientLoopContinues(wI + 1, wMax)
                    THEN wPc' = "poll" /\ wResult' = None
                    ELSE /\ wPc' = "done"
                         /\ wResult' = Rejected(Err("Transaction timeout", -1))
  /\ UNCHANGED <<wImpl, wBundle, wMax>>
  /\ UNCHANGED nonWait

\* Outcome of one iteration of simple-porto waitForTransaction's loop body
\* (simple-porto.ts:199-204); nothing is caught there.
SimpleIteration(r) ==
  LET out == relayCall(r)
  IN IF ~out.ok THEN [do |-> "throw", val |-> out.val]
     ELSE IF out.val.hasError \/ out.val.result.t # "status"
       THEN [do |-> "throw", val |-> TypeError]
     ELSE IF SimpleIsSuccess(out.val.result.status)
       THEN [do |-> "return", val |-> out.val.result]
     ELSE [do |-> "next", val |-> None]

\* A wallet_getCallsStatus response arrives in simple-porto waitForTransaction.
SimplePoll(r) ==
  /\ wPc = "poll" /\ wImpl = "simple"
  /\ wHist' = Append(wHist, [bundle |-> wBundle, resp |-> r])
  /\ LET it == SimpleIteration(r)
     IN CASE it.do = "return" ->
               /\ wResult' = Resolved(it.val) /\ wPc' = "done" /\ wI' = wI
          [] it.do = "throw" ->
               /\ wResult' = Rejected(it.val) /\ wPc' = "done" /\ wI' = wI
          [] OTHER ->
               /\ wI' = wI + 1
               /\ IF SimpleLoopContinues(wI + 1, wMax)
                    THEN wPc' = "poll" /\ wResult' = None
                    ELSE /\ wPc' = "done"
                         /\ wResult' = Rejected(Err("Transaction timeout", -1))
  /\ UNCHANGED <<wImpl, wBundle, wMax>>
  /\ UNCHANGED nonWait

(***************************************************************************)
(* Properties of status polling.                                           *)
(***************************************************************************)
\* The relay answered this poll with a status object whose code is >= 400
\* (terminal failure, spec 4.2.2 step 5).
IsFailureResponse(r) ==
  /\ rpcCall(r).ok /\ r.result.t = "status"
  /\ r.result.status.t = "num" /\ r.result.status.n >= 400

\* The relay answered this poll with a pending status: a numeric code below
\* 400 other than 200 that is 0 or of the 2xx/3xx style.
IsPendingResponse(r) ==
  /\ rpcCall(r).ok /\ r.result.t = "status"
  /\ r.result.status.t = "num"
  /\ r.result.status.n \in {0} \cup (201..399)

AllPollsPending == \A k \in 1..Len(wHist) : IsPendingResponse(wHist[k].resp)

\* C1: in PortoClient.waitForTransaction a poll that returns a status code
\* >= 400 is the last poll of the call, and the call rejects with the error
\* naming that code.
C1_FailureStatusRaisesImmediately ==
  wImpl = "client" =>
    \A k \in 1..Len(wHist) :
      IsFailureResponse(wHist[k].resp) =>
        /\ k = Len(wHist)
        /\ wPc = "done"
        /\ wResult = Rejected(Err("Transaction failed with status ",
                                  wHist[k].resp.result.status.n))

C3_TransportFailureNotRetried ==
  wImpl = "client" =>
    \A k \in 1..Len(wHist) :
      IsTransportFailure(wHist[k].resp) =>
        /\ k = Len(wHist)
        /\ wPc = "done"
        /\ wResult = Rejected(rpcCall(wHist[k].resp).val)

(***************************************************************************)
(* Keys, accounts, signatures and the secure store.                        *)
(***************************************************************************)
MAIN_WALLET_KEY == "RISE_MAIN_WALLET"
SESSION_KEY_InMainEntry == "RISE_MAIN_WALLET"
SESSION_KEY == "RISE_SESSION_KEY"
SESSION_EXPIRY == "RISE_SESSION_EXPIRY"
StoreKeys == {MAIN_WALLET_KEY, SESSION_KEY, SESSION_EXPIRY}

\* session.ts:60  60 * 60 * 1000
HourMs == 3600000
StartTime == 1000

DigitChars == <<"0", "1", "2", "3", "4", "5", "6", "7", "8", "9">>

\* A JavaScript string, as its sequence of characters; a boolean.
Str(cs) == [t |-> "str", chars |-> cs]
Bool(b) == [t |-> "bool", b |-> b]

\* Hex digits of an address: 20 bytes.
AddressDigits == 40

\* A private key as generatePrivateKey returns it: the n-th key generated.
PrivateKey(n) == [t |-> "pk", id |-> n]
\* viem privateKeyToAccount: the account of a key, with its derived
\* (checksummed, mixed-case) address.
Address(pk) ==
  Str(<<"0", "x", "A", "b">> \o [i \in 1..(AddressDigits - 3) |-> "0"]
        \o <<DigitChars[pk.id + 1]>>)
privateKeyToAccount(pk) == [t |-> "account", pk |-> pk, address |-> Address(pk)]
\* account.sign({hash}): a raw signature over the hash by the account's key.
Sign(account, hash) == [t |-> "sig", by |-> account.pk, over |-> hash]

\* Number.prototype.toString of an integer, as a sequence of characters.
IsDigit(c) == \E d \in 1..10 : DigitChars[d] = c
DigitValue(c) == (CHOOSE d \in 1..10 : DigitChars[d] = c) - 1
RECURSIVE DigitsOf(_)
DigitsOf(n) ==
  IF n < 10 THEN <<DigitChars[n + 1]>>
  ELSE Append(DigitsOf(n \div 10), DigitChars[(n % 10) + 1])
toString(n) == Str(IF n < 0 THEN <<"-">> \o DigitsOf(-n) ELSE DigitsOf(n))

\* parseInt: optional sign, then the longest prefix of digits; NaN if none.
NaN == [nan |-> TRUE, n |-> 0]
Num(n) == [nan |-> FALSE, n |-> n]
RECURSIVE ParseDigits(_, _)
ParseDigits(cs, acc) ==
  IF cs = <<>> \/ ~IsDigit(Head(cs)) THEN acc
  ELSE ParseDigits(Tail(cs), acc * 10 + DigitValue(Head(cs)))
parseInt(str) ==
  LET cs == IF str = None THEN <<>> ELSE str.chars
      signed == cs # <<>> /\ Head(cs) \in {"-", "+"}
      body == IF signed THEN Tail(cs) ELSE cs
  IN IF body = <<>> \/ ~IsDigit(Head(body)) THEN NaN
     ELSE Num((IF signed /\ Head(cs) = "-" THEN -1 ELSE 1) * ParseDigits(body, 0))

\* String.prototype.toLowerCase, slice(2) and padStart on character sequences.
LowerChar(c) ==
  CASE c = "A" -> "a" [] c = "B" -> "b" [] c = "C" -> "c" [] c = "D" -> "d"
    [] c = "E" -> "e" [] c = "F" -> "f" [] c = "X" -> "x" [] OTHER -> c
toLowerCase(cs) == [i \in 1..Len(cs) |-> LowerChar(cs[i])]
slice2(cs) == SubSeq(cs, 3, Len(cs))
padStart_AtEnd(cs, n, c) ==
  IF Len(cs) >= n THEN cs ELSE cs \o [i \in 1..(n - Len(cs)) |-> c]
padStart(cs, n, c) ==
  IF Len(cs) >= n THEN cs ELSE [i \in 1..(n - Len(cs)) |-> c] \o cs

\* client.ts:31-42 / simple-porto.ts:47-55  serializePublicKey
PaddedDigits == 64
serializePublicKey_LongKeptAsIs(address) ==
  LET cleanAddress == toLowerCase(address.chars)
  IN IF Len(cleanAddress) < PaddedDigits + 2
       THEN Str(<<"0", "x">> \o padStart(slice2(cleanAddress), PaddedDigits, "0"))
       ELSE address
serializePublicKey(address) ==
  LET cleanAddress == toLowerCase(address.chars)
  IN IF Len(cleanAddress) < PaddedDigits + 2
       THEN Str(<<"0", "x">> \o padStart(slice2(cleanAddress), PaddedDigits, "0"))
       ELSE Str(cleanAddress)

\* a < b for a number a and a parseInt result b (false against NaN)
LessThan(a, b) == ~b.nan /\ a < b.n

\* Addresses handed to serializePublicKey: "0x" and 1 to 64 + MaxExtraDigits
\* hex digits, in three mixtures of digits and lower- and upper-case letters.
MaxExtraDigits == 2
Addresses ==
  LET mix == <<"0", "1", "A", "9", "f", "C", "b", "F", "e", "D", "7">>
  IN {Str(<<"0", "x">> \o [i \in 1..n |-> mix[((i * k + n) % Len(mix)) + 1]]) :
        n \in 1..(PaddedDigits + MaxExtraDigits), k \in 1..3}

\* serializePublicKey applied to the argument, then to its own result.
Serialize ==
  /\ keyIn # None /\ Len(keyOut) < 2
  /\ keyOut' = Append(keyOut, serializePublicKey(IF keyOut = <<>> THEN keyIn
                                                  ELSE keyOut[Len(keyOut)]))
  /\ UNCHANGED <<keyIn, wvars, svars, porto>>


\* HomeScreen.tsx:7-8 and SettingsScreen.tsx:15-16 each build a PortoClient
\* and a SessionManager over the one secure store.
Mgrs == {"home", "settings"}
Procs == {"p1", "p2", "p3"}

\* session.ts:15-22  the fields of a new SessionManager
NewManager == [mainAccount |-> None, sessionAccount |-> None, sessionExpiry |-> 0,
               config |-> [expiryHours |-> 24, autoRenew |-> TRUE]]

IdleProc == [mgr |-> "home", op |-> "none", pc |-> "idle",
             privateKey |-> None, existingKey |-> None, expStr |-> None,
             nowRead |-> 0, prepareResponse |-> None, bundleId |-> None,
             account |-> None, attempts |-> 0, result |-> None]

NoFx == [writes |-> 0, gens |-> 0]
Snapshot == [store |-> store, mgr |-> mgr, client |-> client, last |-> lastDone]

SessionInit ==
  /\ store = [k \in StoreKeys |-> None]
  /\ now = StartTime /\ ticks = 0
  /\ generated = <<>>
  /\ mgr = [m \in Mgrs |-> NewManager]
  /\ client = [m \in Mgrs |-> None]
  /\ proc = [p \in Procs |-> IdleProc]
  /\ trace = [p \in Procs |-> <<>>]
  /\ fx = [p \in Procs |-> NoFx]
  /\ pre = [p \in Procs |-> [store |-> [k \in StoreKeys |-> None],
                             mgr |-> [m \in Mgrs |-> NewManager],
                             client |-> [m \in Mgrs |-> None],
                             last |-> None]]
  /\ lastDone = None

Quiet(p) == proc[p].pc \in {"idle", "done"}
AllQuiet == \A p \in Procs : Quiet(p)

\* lib/porto.ts:41-44  the fields of the Porto singleton
PortoInit == porto = [mainAccount |-> None, sessionAccount |-> None, sessionExpiry |-> Num(0)]

\* The clock advances (by an hour or by a day).
Tick(d) ==
  /\ ticks < MaxTicks
  /\ now' = now + d /\ ticks' = ticks + 1
  /\ UNCHANGED <<store, generated, mgr, client, proc, trace, fx, pre, lastDone>>
  /\ UNCHANGED nonSession

\* A call begins on manager m: its first store request is issued.
Begin(p, m, op, pc) ==
  /\ Quiet(p)
  /\ proc' = [proc EXCEPT ![p] = [IdleProc EXCEPT !.mgr = m, !.op = op, !.pc = pc]]
  /\ trace' = [trace EXCEPT ![p] = <<>>]
  /\ fx' = [fx EXCEPT ![p] = NoFx]
  /\ pre' = [pre EXCEPT ![p] = Snapshot]
  /\ UNCHANGED <<store, now, ticks, generated, mgr, client, lastDone>>
  /\ UNCHANGED nonSession

\* The call of process p settles with result res.
Settle(p, res) ==
  /\ proc' = [proc EXCEPT ![p] = [IdleProc EXCEPT !.mgr = proc[p].mgr, !.op = proc[p].op,
                                     !.pc = "done", !.nowRead = proc[p].nowRead,
                                     !.result = res]]
  /\ lastDone' = [op |-> proc[p].op, mgr |-> proc[p].mgr, result |-> res]

(***************************************************************************)
(* SessionManager.initMainWallet (session.ts:28-42)                        *)
(***************************************************************************)
\* session.ts:31  if (!privateKey)
NeedsNewMainKey_Always(privateKey) == TRUE
NeedsNewMainKey(privateKey) == privateKey = None

initMainWallet(p, m) == Begin(p, m, "initMainWallet", "imRead")

\* session.ts:37-41  account from the key, client.init, return the address
IM_Finish(p, privateKey) ==
  LET m == proc[p].mgr
      account == privateKeyToAccount(privateKey)
  IN /\ mgr' = [mgr EXCEPT ![m].mainAccount = account]
     /\ client' = [client EXCEPT ![m] = account]
     /\ Settle(p, Resolved(account.address))

\* getItemAsync(MAIN_WALLET_KEY) resolves; a missing key is generated and
\* its setItemAsync is issued.
IM_ReadDone(p) ==
  /\ proc[p].pc = "imRead"
  /\ LET privateKey == store[MAIN_WALLET_KEY]
     IN IF NeedsNewMainKey(privateKey)
          THEN /\ Len(generated) < MaxKeys
               /\ generated' = Append(generated, "main")
               /\ proc' = [proc EXCEPT ![p].pc = "imWrite",
                                       ![p].privateKey = PrivateKey(Len(generated) + 1)]
               /\ fx' = [fx EXCEPT ![p].writes = @ + 1, ![p].gens = @ + 1]
               /\ UNCHANGED <<mgr, client, lastDone>>
          ELSE /\ IM_Finish(p, privateKey)
               /\ UNCHANGED <<generated, fx>>
  /\ UNCHANGED <<store, now, ticks, trace, pre>>
  /\ UNCHANGED nonSession

\* setItemAsync(MAIN_WALLET_KEY, privateKey) resolves.
IM_WriteDone(p) ==
  /\ proc[p].pc = "imWrite"
  /\ store' = [store EXCEPT ![MAIN_WALLET_KEY] = proc[p].privateKey]
  /\ IM_Finish(p, proc[p].privateKey)
  /\ UNCHANGED <<now, ticks, generated, trace, fx, pre>>
  /\ UNCHANGED nonSession

(***************************************************************************)
(* PortoClient.setupDelegation (client.ts:81-127)                          *)
(***************************************************************************)
PROXY == "0xf463d5cbc64916caa2775a8e9b264f8c35f4b8a4"
CHAIN_ID == 11155931

\* A request sent to the relay: n counts how often it was sent (a poll is
\* repeated), resp is the latest answer received, None before the first.
Exchange(method, params) ==
  [method |-> method, params |-> params, n |-> 1, resp |-> None]
\* The response to the request sent last arrives.
Answered(tr, r) == [tr EXCEPT ![Len(tr)].resp = r]

\* wallet_prepareUpgradeAccount results: context and the two digests.
PrepareUpgradeResult(c, a, e) ==
  [t |-> "prepareUpgrade", context |-> c, digests |-> [auth |-> a, exec |-> e]]
PrepareUpgradeResponses ==
  {RelayOk(PrepareUpgradeResult("ctx1", "0xauthdigest", "0xexecdigest")),
   RelayOk(PrepareUpgradeResult("ctx2", "0xsamedigest", "0xsamedigest")),
   RelayOk(None), RelayErr("Invalid request"), HttpFail(500), NetFail}
UpgradeResponses ==
  {RelayOk([t |-> "ack"]), RelayErr("Invalid signature"), HttpFail(500), NetFail}

\* client.ts:85-102  the wallet_prepareUpgradeAccount request
PrepareUpgradeRequest(account, adminKeyAddress) ==
  [address |-> account.address,
   delegation |-> PROXY,
   capabilities |->
     [authorizeKeys |->
        IF adminKeyAddress # None
          THEN <<[expiry |-> "0x0", prehash |-> FALSE,
                  publicKey |-> serializePublicKey(adminKeyAddress),
                  role |-> "admin", type |-> "secp256k1", permissions |-> <<>>]>>
          ELSE <<>>],
   chainId |-> CHAIN_ID]

\* client.ts:109-110  the key that signs the digests: this.account
UpgradeSigner(m) == client[m]

\* client.ts:109-118  the wallet_upgradeAccount request
UpgradeAccountRequest_SwappedDigests(account, prepareResponse) ==
  [context |-> prepareResponse.context,
   signatures |-> [auth |-> Sign(account, prepareResponse.digests.exec),
                   exec |-> Sign(account, prepareResponse.digests.auth)]]
UpgradeAccountRequest_CachedContext(account, prepareResponse) ==
  [context |-> "ctx1",
   signatures |-> [auth |-> Sign(account, "0xauthdigest"),
                   exec |-> Sign(account, "0xexecdigest")]]
UpgradeAccountRequest(account, prepareResponse) ==
  [context |-> prepareResponse.context,
   signatures |-> [auth |-> Sign(account, prepareResponse.digests.auth),
                   exec |-> Sign(account, prepareResponse.digests.exec)]]

NotInitialized_WalletMessage == Err("Wallet not initialized", -1)
NotInitialized == Err("Client not initialized", -1)

\* What the caller of setupDelegation gets once it returned `ok`:
\* createSessionKey (session.ts:68-70) ignores it and returns the session
\* address; a direct caller gets the boolean.
SD_Result(p, ok) ==
  IF proc[p].op = "createSessionKey"
    THEN IF mgr[proc[p].mgr].sessionAccount = None THEN Rejected(TypeError)
         ELSE Resolved(mgr[proc[p].mgr].sessionAccount.address)
    ELSE Resolved(Bool(ok))

\* A direct call of PortoClient.setupDelegation(adminKeyAddress?).
setupDelegation(p, m, adminKeyAddress) ==
  /\ Quiet(p)
  /\ fx' = [fx EXCEPT ![p] = NoFx]
  /\ pre' = [pre EXCEPT ![p] = Snapshot]
  /\ LET base == [IdleProc EXCEPT !.mgr = m, !.op = "setupDelegation"]
     IN IF client[m] = None
          THEN /\ proc' = [proc EXCEPT ![p] = [base EXCEPT !.pc = "done",
                                                  !.result = Rejected(NotInitialized)]]
               /\ lastDone' = [op |-> "setupDelegation", mgr |-> m,
                               result |-> Rejected(NotInitialized)]
               /\ trace' = [trace EXCEPT ![p] = <<>>]
          ELSE /\ proc' = [proc EXCEPT ![p] = [base EXCEPT !.pc = "sdPrepare"]]
               /\ trace' = [trace EXCEPT ![p] =
                    <<Exchange("wallet_prepareUpgradeAccount",
                               PrepareUpgradeRequest(client[m], adminKeyAddress))>>]
               /\ UNCHANGED lastDone
  /\ UNCHANGED <<store, now, ticks, generated, mgr, client>>
  /\ UNCHANGED nonSession

\* The wallet_prepareUpgradeAccount response arrives: both digests are
\* signed and wallet_upgradeAccount is sent; any error returns false.
SD_PrepareDone(p, r) ==
  /\ proc[p].pc = "sdPrepare"
  /\ LET m == proc[p].mgr
         out == rpcCall(r)
     IN IF out.ok /\ out.val.t = "prepareUpgrade"
          THEN /\ trace' = [trace EXCEPT ![p] =
                    Append(Answered(trace[p], r),
                           Exchange("wallet_upgradeAccount",
                                    UpgradeAccountRequest(UpgradeSigner(m), out.val)))]
               /\ proc' = [proc EXCEPT ![p].pc = "sdUpgrade",
                                       ![p].prepareResponse = out.val]
               /\ UNCHANGED lastDone
          ELSE /\ trace' = [trace EXCEPT ![p] = Answered(trace[p], r)]
               /\ Settle(p, SD_Result(p, FALSE))
  /\ UNCHANGED <<store, now, ticks, generated, mgr, client, fx, pre>>
  /\ UNCHANGED nonSession

\* client.ts:120-122  `await this.rpcCall('wallet_upgradeAccount', ...)`
\* falls through to `return true` unless rpcCall threw.
UpgradeSucceeded_IgnoresRelayError(r) == ~IsTransportFailure(r)
UpgradeSucceeded(r) == rpcCall(r).ok

\* The wallet_upgradeAccount response arrives.
SD_UpgradeDone(p, r) ==
  /\ proc[p].pc = "sdUpgrade"
  /\ trace' = [trace EXCEPT ![p] = Answered(trace[p], r)]
  /\ Settle(p, SD_Result(p, UpgradeSucceeded(r)))
  /\ UNCHANGED <<store, now, ticks, generated, mgr, client, fx, pre>>
  /\ UNCHANGED nonSession

(***************************************************************************)
(* SessionManager.createSessionKey (session.ts:44-71)                      *)
(***************************************************************************)
\* session.ts:48-50  existingKey && existingExpiry && Date.now() < expiry
CanReuseSession_KeyAlone(existingKey, existingExpiry, t) == existingKey # None
CanReuseSession_Never(existingKey, existingExpiry, t) == FALSE
CanReuseSession(existingKey, existingExpiry, t) ==
  /\ existingKey # None /\ existingExpiry # None
  /\ LessThan(t, parseInt(existingExpiry))

\* session.ts:60  Date.now() + (this.config.expiryHours * 60 * 60 * 1000)
NewExpiry_InSeconds(t, config) == t + (config.expiryHours * 3600)
NewExpiry(t, config) == t + (config.expiryHours * HourMs)

createSessionKey(p, m) == Begin(p, m, "createSessionKey", "csReadKey")

\* getItemAsync(SESSION_KEY) resolves; getItemAsync(SESSION_EXPIRY) is issued.
CS_ReadKeyDone(p) ==
  /\ proc[p].pc = "csReadKey"
  /\ proc' = [proc EXCEPT ![p].pc = "csReadExp", ![p].existingKey = store[SESSION_KEY]]
  /\ UNCHANGED <<store, now, ticks, generated, mgr, client, trace, fx, pre, lastDone>>
  /\ UNCHANGED nonSession

\* getItemAsync(SESSION_EXPIRY) resolves: the persisted session is reused,
\* or a new key and expiry are made and setItemAsync(SESSION_KEY) is issued.
CS_ReadExpDone(p) ==
  /\ proc[p].pc = "csReadExp"
  /\ LET m == proc[p].mgr
         existingKey == proc[p].existingKey
         existingExpiry == store[SESSION_EXPIRY]
     IN IF CanReuseSession(existingKey, existingExpiry, now)
          THEN /\ mgr' = [mgr EXCEPT
                    ![m].sessionAccount = privateKeyToAccount(existingKey),
                    ![m].sessionExpiry = parseInt(existingExpiry).n]
               /\ proc' = [proc EXCEPT ![p] =
                    [IdleProc EXCEPT !.mgr = m, !.op = proc[p].op, !.pc = "done",
                       !.nowRead = now,
                       !.result = Resolved(Address(existingKey))]]
               /\ lastDone' = [op |-> proc[p].op, mgr |-> m,
                               result |-> Resolved(Address(existingKey))]
               /\ UNCHANGED <<generated, fx>>
          ELSE /\ Len(generated) < MaxKeys
               /\ generated' = Append(generated, "session")
               /\ mgr' = [mgr EXCEPT
                    ![m].sessionAccount =
                       privateKeyToAccount(PrivateKey(Len(generated) + 1)),
                    ![m].sessionExpiry = NewExpiry(now, mgr[m].config)]
               /\ proc' = [proc EXCEPT ![p].pc = "csWriteKey",
                                       ![p].privateKey = PrivateKey(Len(generated) + 1),
                                       ![p].nowRead = now]
               /\ fx' = [fx EXCEPT ![p].writes = @ + 1, ![p].gens = @ + 1]
               /\ UNCHANGED lastDone
  /\ UNCHANGED <<store, now, ticks, client, trace, pre>>
  /\ UNCHANGED nonSession

\* setItemAsync(SESSION_KEY) resolves; setItemAsync(SESSION_EXPIRY,
\* this.sessionExpiry.toString()) is issued.
CS_WriteKeyDone(p) ==
  /\ proc[p].pc = "csWriteKey"
  /\ store' = [store EXCEPT ![SESSION_KEY] = proc[p].privateKey]
  /\ proc' = [proc EXCEPT ![p].pc = "csWriteExp",
                          ![p].expStr = toString(mgr[proc[p].mgr].sessionExpiry)]
  /\ fx' = [fx EXCEPT ![p].writes = @ + 1]
  /\ UNCHANGED <<now, ticks, generated, mgr, client, trace, pre, lastDone>>
  /\ UNCHANGED nonSession

\* setItemAsync(SESSION_EXPIRY) resolves; the delegation handshake for the
\* new session key starts (session.ts:65-68).
CS_WriteExpDone(p) ==
  /\ proc[p].pc = "csWriteExp"
  /\ store' = [store EXCEPT ![SESSION_EXPIRY] = proc[p].expStr]
  /\ LET m == proc[p].mgr
     IN IF mgr[m].sessionAccount = None
          THEN Settle(p, Rejected(TypeError)) /\ UNCHANGED trace
        ELSE IF client[m] = None
          THEN Settle(p, Rejected(NotInitialized)) /\ UNCHANGED trace
        ELSE /\ proc' = [proc EXCEPT ![p].pc = "sdPrepare"]
             /\ trace' = [trace EXCEPT ![p] =
                  <<Exchange("wallet_prepareUpgradeAccount",
                             PrepareUpgradeRequest(client[m],
                                                   mgr[m].sessionAccount.address))>>]
             /\ UNCHANGED lastDone
  /\ UNCHANGED <<now, ticks, generated, mgr, client, fx, pre>>
  /\ UNCHANGED nonSession

(***************************************************************************)
(* SessionManager.clearSession, resetAll, updateConfig (session.ts:73-90)  *)
(***************************************************************************)
clearSession(p, m) == Begin(p, m, "clearSession", "clDelKey")
resetAll(p, m) == Begin(p, m, "resetAll", "raDelMain")

\* deleteItemAsync(MAIN_WALLET_KEY) resolves; clearSession is entered.
RA_DelMainDone(p) ==
  /\ proc[p].pc = "raDelMain"
  /\ store' = [store EXCEPT ![MAIN_WALLET_KEY] = None]
  /\ proc' = [proc EXCEPT ![p].pc = "clDelKey"]
  /\ UNCHANGED <<now, ticks, generated, mgr, client, trace, fx, pre, lastDone>>
  /\ UNCHANGED nonSession

\* deleteItemAsync(SESSION_KEY) resolves; deleteItemAsync(SESSION_EXPIRY) is issued.
CL_DelKeyDone(p) ==
  /\ proc[p].pc = "clDelKey"
  /\ store' = [store EXCEPT ![SESSION_KEY] = None]
  /\ proc' = [proc EXCEPT ![p].pc = "clDelExp"]
  /\ UNCHANGED <<now, ticks, generated, mgr, client, trace, fx, pre, lastDone>>
  /\ UNCHANGED nonSession

\* session.ts:76-77, 84  the fields after clearSession, and after resetAll,
\* which drops the main account too.
ClearedManager_KeepsSession(mg, op) ==
  [mg EXCEPT !.mainAccount = IF op = "resetAll" THEN None ELSE @]
ClearedManager_KeepsExpiry(mg, op) ==
  [mg EXCEPT !.sessionAccount = None,
             !.mainAccount = IF op = "resetAll" THEN None ELSE @]
ClearedManager_KeepsMain(mg, op) ==
  [mg EXCEPT !.sessionAccount = None, !.sessionExpiry = 0]
ClearedManager(mg, op) ==
  [mg EXCEPT !.sessionAccount = None, !.sessionExpiry = 0,
             !.mainAccount = IF op = "resetAll" THEN None ELSE @]

\* session.ts:96-110  the getters
getMainAddress(m) ==
  IF mgr[m].mainAccount = None THEN None ELSE mgr[m].mainAccount.address
getSessionAddress(m) ==
  IF mgr[m].sessionAccount = None THEN None ELSE mgr[m].sessionAccount.address
isSessionValid(m) == mgr[m].sessionExpiry > now

\* deleteItemAsync(SESSION_EXPIRY) resolves; the in-memory session is
\* dropped, and resetAll drops the main account too.
CL_DelExpDone(p) ==
  /\ proc[p].pc = "clDelExp"
  /\ store' = [store EXCEPT ![SESSION_EXPIRY] = None]
  /\ mgr' = [mgr EXCEPT ![proc[p].mgr] = ClearedManager(@, proc[p].op)]
  /\ Settle(p, Resolved(None))
  /\ UNCHANGED <<now, ticks, generated, client, trace, fx, pre>>
  /\ UNCHANGED nonSession

\* session.ts:88-90  this.config = { ...this.config, ...config }
ConfigUpdates == {[expiryHours |-> 48, autoRenew |-> FALSE], [expiryHours |-> 0]}
MergeConfig(config, partial) ==
  [k \in DOMAIN config |-> IF k \in DOMAIN partial THEN partial[k] ELSE config[k]]
updateConfig(p, m, partial) ==
  /\ Quiet(p)
  /\ mgr' = [mgr EXCEPT ![m].config = MergeConfig(@, partial)]
  /\ proc' = [proc EXCEPT ![p] = [IdleProc EXCEPT !.mgr = m, !.op = "updateConfig",
                                     !.pc = "done", !.result = Resolved(None)]]
  /\ lastDone' = [op |-> "updateConfig", mgr |-> m, result |-> Resolved(None)]
  /\ trace' = [trace EXCEPT ![p] = <<>>]
  /\ fx' = [fx EXCEPT ![p] = NoFx]
  /\ pre' = [pre EXCEPT ![p] = Snapshot]
  /\ UNCHANGED <<store, now, ticks, generated, client>>
  /\ UNCHANGED nonSession

(***************************************************************************)
(* Transaction submission: PortoClient.prepareCalls, sendPreparedCalls,    *)
(* getCallsStatus and executeTransaction (client.ts:129-194)               *)
(***************************************************************************)
\* constants.ts  PORTO_CONFIG.contracts.frenPetSimple, a call's destination
FrenPetSimple ==
  Str(<<"0", "x", "3", "F", "D", "E", "1", "3", "9", "A", "9", "4", "e", "E", "f", "1", "4", "C", "4", "e", "B", "a", "2", "2", "9", "F", "D", "C", "8", "0", "A", "5", "4", "f", "7", "F", "5", "F", "b", "f", "2", "5">>)
Calls == {[to |-> FrenPetSimple, data |-> "0xdata", value |-> "0x0"]}

\* client.ts:138  the fee-sponsorship sentinel
ClientFeeToken == "0x0000000000000000000000000000000000000000"

OpaqueString(x) == [t |-> "string", s |-> x]

PrepareCallsResult(c, d) == [t |-> "prepareCalls", context |-> c, digest |-> d]
PrepareCallsResponses ==
  {RelayOk(PrepareCallsResult("ctxA", "0xdigest")),
   RelayOk(PrepareCallsResult("ctxB", "0xdigest2")),
   RelayOk(None), RelayErr("Invalid request"), RelayErr(""),
   HttpFail(500), HttpFail(404), NetFail}
\* wallet_sendPreparedCalls answers with {id} or with a bare string id
SendResponses ==
  {RelayOk([t |-> "sendResult", id |-> OpaqueString("0xbundleid")]),
   RelayOk(OpaqueString("0xbareid")),
   RelayOk(None), RelayErr("Invalid signature"), HttpFail(500), NetFail}
StatusResponses ==
  {RelayOk(StatusObject(NumStatus(200), [status |-> "0x1"])),
   RelayOk(StatusObject(NumStatus(0), None)),
   RelayOk(StatusObject(NumStatus(400), None)),
   RelayErr("Unknown bundle"), NetFail}

\* The `key` of a prepareCalls / sendPreparedCalls request
RequestKey(account) ==
  [prehash |-> FALSE, publicKey |-> serializePublicKey(account.address),
   type |-> "secp256k1"]

\* client.ts:132-146  the wallet_prepareCalls request
PrepareCallsRequest_NoCapabilities(account, calls) ==
  [from |-> account.address, chainId |-> CHAIN_ID, calls |-> calls,
   key |-> RequestKey(account)]
PrepareCallsRequest(account, calls) ==
  [from |-> account.address, chainId |-> CHAIN_ID, calls |-> calls,
   capabilities |-> [meta |-> [feeToken |-> ClientFeeToken]],
   key |-> RequestKey(account)]

\* client.ts:157-167  the wallet_sendPreparedCalls request
SendPreparedCallsRequest_StaleContext(account, context, digest) ==
  [context |-> "ctxA", key |-> RequestKey(account), signature |-> Sign(account, digest)]
SendPreparedCallsRequest(account, context, digest) ==
  [context |-> context, key |-> RequestKey(account), signature |-> Sign(account, digest)]

\* client.ts:170  response.id || response
ClientBundleId_IdOnly(response) ==
  IF response.t = "sendResult" THEN response.id ELSE None
ClientBundleId(response) ==
  IF response.t = "sendResult" /\ response.id # None THEN response.id ELSE response

TxResult(bundleId, status) == [t |-> "txResult", bundleId |-> bundleId, status |-> status]

\* executeTransaction(to, data, value): prepareCalls sends its request, or
\* throws on a client without account.
executeTransaction(p, m, call) ==
  /\ Quiet(p)
  /\ fx' = [fx EXCEPT ![p] = NoFx]
  /\ pre' = [pre EXCEPT ![p] = Snapshot]
  /\ LET base == [IdleProc EXCEPT !.mgr = m, !.op = "executeTransaction"]
     IN IF client[m] = None
          THEN /\ proc' = [proc EXCEPT ![p] = [base EXCEPT !.pc = "done",
                                                  !.result = Rejected(NotInitialized)]]
               /\ lastDone' = [op |-> "executeTransaction", mgr |-> m,
                               result |-> Rejected(NotInitialized)]
               /\ trace' = [trace EXCEPT ![p] = <<>>]
          ELSE /\ proc' = [proc EXCEPT ![p] = [base EXCEPT !.pc = "etPrepare"]]
               /\ trace' = [trace EXCEPT ![p] =
                    <<Exchange("wallet_prepareCalls",
                               PrepareCallsRequest(client[m], <<call>>))>>]
               /\ UNCHANGED lastDone
  /\ UNCHANGED <<store, now, ticks, generated, mgr, client>>
  /\ UNCHANGED nonSession

\* The wallet_prepareCalls response arrives; sendPreparedCalls signs the
\* digest and sends wallet_sendPreparedCalls. Errors reject the call.
ET_PrepareDone(p, r) ==
  /\ proc[p].pc = "etPrepare"
  /\ LET m == proc[p].mgr
         out == rpcCall(r)
     IN IF ~out.ok
          THEN /\ trace' = [trace EXCEPT ![p] = Answered(trace[p], r)]
               /\ Settle(p, Rejected(out.val))
        ELSE IF out.val.t # "prepareCalls"
          THEN /\ trace' = [trace EXCEPT ![p] = Answered(trace[p], r)]
               /\ Settle(p, Rejected(TypeError))
        ELSE /\ trace' = [trace EXCEPT ![p] =
                  Append(Answered(trace[p], r),
                         Exchange("wallet_sendPreparedCalls",
                                  SendPreparedCallsRequest(client[m], out.val.context,
                                                           out.val.digest)))]
             /\ proc' = [proc EXCEPT ![p].pc = "etSend"]
             /\ UNCHANGED lastDone
  /\ UNCHANGED <<store, now, ticks, generated, mgr, client, fx, pre>>
  /\ UNCHANGED nonSession

\* client.ts:159-170, 184  sendPreparedCalls returns a bundle id unless
\* rpcCall threw or `response.id` was read on an undefined result.
SendYieldsBundle_Always(out) == TRUE
SendYieldsBundle(out) == out.ok /\ out.val # None

\* The wallet_sendPreparedCalls response arrives; after the 2 s pause the
\* single status request is sent.
ET_SendDone(p, r) ==
  /\ proc[p].pc = "etSend"
  /\ LET out == rpcCall(r)
     IN IF ~SendYieldsBundle(out)
          THEN /\ trace' = [trace EXCEPT ![p] = Answered(trace[p], r)]
               /\ Settle(p, Rejected(IF out.ok THEN TypeError ELSE out.val))
        ELSE /\ trace' = [trace EXCEPT ![p] =
                  Append(Answered(trace[p], r),
                         Exchange("wallet_getCallsStatus", ClientBundleId(out.val)))]
             /\ proc' = [proc EXCEPT ![p].pc = "etStatus",
                                     ![p].bundleId = ClientBundleId(out.val)]
             /\ UNCHANGED lastDone
  /\ UNCHANGED <<store, now, ticks, generated, mgr, client, fx, pre>>
  /\ UNCHANGED nonSession

\* The status response arrives; a failure leaves status undefined.
ET_StatusDone(p, r) ==
  /\ proc[p].pc = "etStatus"
  /\ trace' = [trace EXCEPT ![p] = Answered(trace[p], r)]
  /\ Settle(p, Resolved(TxResult(proc[p].bundleId,
                                 IF rpcCall(r).ok THEN rpcCall(r).val ELSE None)))
  /\ UNCHANGED <<store, now, ticks, generated, mgr, client, fx, pre>>
  /\ UNCHANGED nonSession

(***************************************************************************)
(* PortoClient.checkHealth (client.ts:67-74)                               *)
(***************************************************************************)
\* What the relay can answer to `health`.
HealthResponses ==
  {RelayOk(OpaqueString("healthy")), RelayOk(OpaqueString("degraded")),
   RelayOk(None), RelayErr("Service unavailable"),
   [RelayOk(OpaqueString("healthy")) EXCEPT !.hasError = TRUE],
   HttpFail(503), NetFail}

\* result === 'healthy' on what rpcCall returned; false when it threw.
IsHealthy_AnyResult(out) == out.ok
IsHealthy(out) == out.ok /\ out.val = OpaqueString("healthy")

\* checkHealth(): sends `health` with no parameters, whatever the account.
checkHealth(p, m) ==
  /\ Quiet(p)
  /\ proc' = [proc EXCEPT ![p] = [IdleProc EXCEPT !.mgr = m, !.op = "checkHealth",
                                     !.pc = "chHealth"]]
  /\ trace' = [trace EXCEPT ![p] = <<Exchange("health", <<>>)>>]
  /\ fx' = [fx EXCEPT ![p] = NoFx]
  /\ pre' = [pre EXCEPT ![p] = Snapshot]
  /\ UNCHANGED <<store, now, ticks, generated, mgr, client, lastDone>>
  /\ UNCHANGED nonSession

\* The answer arrives: true for the result 'healthy', false for anything
\* else and for whatever rpcCall throws.
CH_HealthDone(p, r) ==
  /\ proc[p].pc = "chHealth"
  /\ trace' = [trace EXCEPT ![p] = Answered(trace[p], r)]
  /\ Settle(p, Resolved(Bool(IsHealthy(rpcCall(r)))))
  /\ UNCHANGED <<store, now, ticks, generated, mgr, client, fx, pre>>
  /\ UNCHANGED nonSession

(***************************************************************************)
(* Direct calls of PortoClient.prepareCalls and sendPreparedCalls          *)
(* (client.ts:129-171)                                                     *)
(***************************************************************************)
\* The context and digest a caller passes to sendPreparedCalls.
PreparedCalls == {PrepareCallsResult("ctxA", "0xdigest")}

\* prepareCalls(calls): throws on a client without account, otherwise sends
\* wallet_prepareCalls.
prepareCalls(p, m, calls) ==
  /\ Quiet(p)
  /\ fx' = [fx EXCEPT ![p] = NoFx]
  /\ pre' = [pre EXCEPT ![p] = Snapshot]
  /\ LET base == [IdleProc EXCEPT !.mgr = m, !.op = "prepareCalls"]
     IN IF client[m] = None
          THEN /\ proc' = [proc EXCEPT ![p] = [base EXCEPT !.pc = "done",
                                                  !.result = Rejected(NotInitialized)]]
               /\ lastDone' = [op |-> base.op, mgr |-> m,
                               result |-> Rejected(NotInitialized)]
               /\ trace' = [trace EXCEPT ![p] = <<>>]
          ELSE /\ proc' = [proc EXCEPT ![p] = [base EXCEPT !.pc = "pcPrepare"]]
               /\ trace' = [trace EXCEPT ![p] =
                    <<Exchange("wallet_prepareCalls",
                               PrepareCallsRequest(client[m], calls))>>]
               /\ UNCHANGED lastDone
  /\ UNCHANGED <<store, now, ticks, generated, mgr, client>>
  /\ UNCHANGED nonSession

\* The wallet_prepareCalls response arrives: prepareCalls returns what
\* rpcCall returned, or rejects with what it threw.
PC_PrepareDone(p, r) ==
  /\ proc[p].pc = "pcPrepare"
  /\ trace' = [trace EXCEPT ![p] = Answered(trace[p], r)]
  /\ Settle(p, IF rpcCall(r).ok THEN Resolved(rpcCall(r).val)
               ELSE Rejected(rpcCall(r).val))
  /\ UNCHANGED <<store, now, ticks, generated, mgr, client, fx, pre>>
  /\ UNCHANGED nonSession

\* sendPreparedCalls(context, digest): throws on a client without account,
\* otherwise signs the digest and sends wallet_sendPreparedCalls.
sendPreparedCalls(p, m, context, digest) ==
  /\ Quiet(p)
  /\ fx' = [fx EXCEPT ![p] = NoFx]
  /\ pre' = [pre EXCEPT ![p] = Snapshot]
  /\ LET base == [IdleProc EXCEPT !.mgr = m, !.op = "sendPreparedCalls"]
     IN IF client[m] = None
          THEN /\ proc' = [proc EXCEPT ![p] = [base EXCEPT !.pc = "done",
                                                  !.result = Rejected(NotInitialized)]]
               /\ lastDone' = [op |-> base.op, mgr |-> m,
                               result |-> Rejected(NotInitialized)]
               /\ trace' = [trace EXCEPT ![p] = <<>>]
          ELSE /\ proc' = [proc EXCEPT ![p] = [base EXCEPT !.pc = "spSend"]]
               /\ trace' = [trace EXCEPT ![p] =
                    <<Exchange("wallet_sendPreparedCalls",
                               SendPreparedCallsRequest(client[m], context, digest))>>]
               /\ UNCHANGED lastDone
  /\ UNCHANGED <<store, now, ticks, generated, mgr, client>>
  /\ UNCHANGED nonSession

\* The wallet_sendPreparedCalls response arrives: sendPreparedCalls returns
\* response.id || response.
SP_SendDone(p, r) ==
  /\ proc[p].pc = "spSend"
  /\ trace' = [trace EXCEPT ![p] = Answered(trace[p], r)]
  /\ LET out == rpcCall(r)
     IN Settle(p, IF SendYieldsBundle(out) THEN Resolved(ClientBundleId(out.val))
                  ELSE Rejected(IF out.ok THEN TypeError ELSE out.val))
  /\ UNCHANGED <<store, now, ticks, generated, mgr, client, fx, pre>>
  /\ UNCHANGED nonSession

(***************************************************************************)
(* simple-porto: prepareCalls, sendPreparedCalls, waitForTransaction and   *)
(* sendTransaction (simple-porto.ts:116-237)                               *)
(***************************************************************************)
\* simple-porto.ts:15  PORTO_CONFIG.ethAddress
SimpleFeeToken == "0x0000000000000000000000000000000000000000"
\* simple-porto.ts:192  the default maxAttempts
DefaultMaxAttempts == 30

\* simple-porto.ts:124-147  the wallet_prepareCalls request
SimplePrepareCallsRequest(account, calls) ==
  [from |-> account.address, chainId |-> CHAIN_ID,
   calls |-> [i \in 1..Len(calls) |->
                [calls[i] EXCEPT !.to = Str(toLowerCase(calls[i].to.chars))]],
   capabilities |-> [meta |-> [feeToken |-> SimpleFeeToken]],
   key |-> RequestKey(account)]

\* simple-porto.ts:159-169  the wallet_sendPreparedCalls request
SimpleSendRequest(account, prepareResult) ==
  [context |-> prepareResult.context, key |-> RequestKey(account),
   signature |-> Sign(account, prepareResult.digest)]

\* `response.result` of a body relayCall returned
BodyResult(body) == IF body.hasError THEN None ELSE body.result

\* simple-porto.ts:173-176  a bare string id is wrapped into {id}
SimpleSendResult(result) ==
  IF result # None /\ result.t = "string"
    THEN [t |-> "sendResult", id |-> result] ELSE result

\* sendTransaction(account, to, data, value): prepareCalls sends its request.
sendTransaction(p, account, call) ==
  /\ Quiet(p)
  /\ fx' = [fx EXCEPT ![p] = NoFx]
  /\ pre' = [pre EXCEPT ![p] = Snapshot]
  /\ proc' = [proc EXCEPT ![p] = [IdleProc EXCEPT !.op = "sendTransaction",
                                     !.pc = "stPrepare", !.account = account]]
  /\ trace' = [trace EXCEPT ![p] =
       <<Exchange("wallet_prepareCalls", SimplePrepareCallsRequest(account, <<call>>))>>]
  /\ UNCHANGED <<store, now, ticks, generated, mgr, client, lastDone>>
  /\ UNCHANGED nonSession

\* The wallet_prepareCalls response arrives; sendPreparedCalls signs the
\* digest and sends wallet_sendPreparedCalls.
ST_PrepareDone(p, r) ==
  /\ proc[p].pc = "stPrepare"
  /\ LET out == relayCall(r)
         prepareResult == BodyResult(out.val)
     IN IF ~out.ok
          THEN /\ trace' = [trace EXCEPT ![p] = Answered(trace[p], r)]
               /\ Settle(p, Rejected(out.val))
        ELSE IF prepareResult = None
          THEN /\ trace' = [trace EXCEPT ![p] = Answered(trace[p], r)]
               /\ Settle(p, Rejected(TypeError))
        ELSE /\ trace' = [trace EXCEPT ![p] =
                  Append(Answered(trace[p], r),
                         Exchange("wallet_sendPreparedCalls",
                                  SimpleSendRequest(proc[p].account, prepareResult)))]
             /\ proc' = [proc EXCEPT ![p].pc = "stSend"]
             /\ UNCHANGED lastDone
  /\ UNCHANGED <<store, now, ticks, generated, mgr, client, fx, pre>>
  /\ UNCHANGED nonSession

\* The wallet_sendPreparedCalls response arrives; waitForTransaction starts
\* polling with the bundle id.
ST_SendDone(p, r) ==
  /\ proc[p].pc = "stSend"
  /\ LET out == relayCall(r)
         sendResult == SimpleSendResult(BodyResult(out.val))
     IN IF ~out.ok
          THEN /\ trace' = [trace EXCEPT ![p] = Answered(trace[p], r)]
               /\ Settle(p, Rejected(out.val))
        ELSE IF sendResult = None
          THEN /\ trace' = [trace EXCEPT ![p] = Answered(trace[p], r)]
               /\ Settle(p, Rejected(TypeError))
        ELSE /\ trace' = [trace EXCEPT ![p] =
                  Append(Answered(trace[p], r),
                         Exchange("wallet_getCallsStatus", sendResult.id))]
             /\ proc' = [proc EXCEPT ![p].pc = "stPoll", ![p].bundleId = sendResult.id,
                                     ![p].attempts = 0]
             /\ UNCHANGED lastDone
  /\ UNCHANGED <<store, now, ticks, generated, mgr, client, fx, pre>>
  /\ UNCHANGED nonSession

\* A status response arrives inside sendTransaction's waitForTransaction.
ST_PollDone(p, r) ==
  /\ proc[p].pc = "stPoll"
  /\ LET it == SimpleIteration(r)
     IN CASE it.do = "return" ->
               /\ trace' = [trace EXCEPT ![p] = Answered(trace[p], r)]
               /\ Settle(p, Resolved(TxResult(proc[p].bundleId, it.val)))
          [] it.do = "throw" ->
               /\ trace' = [trace EXCEPT ![p] = Answered(trace[p], r)]
               /\ Settle(p, Rejected(it.val))
          [] OTHER ->
               IF SimpleLoopContinues(proc[p].attempts + 1, DefaultMaxAttempts)
                 THEN /\ trace' = [trace EXCEPT ![p][Len(trace[p])].n = @ + 1,
                                                ![p][Len(trace[p])].resp = r]
                      /\ proc' = [proc EXCEPT ![p].attempts = @ + 1]
                      /\ UNCHANGED lastDone
                 ELSE /\ trace' = [trace EXCEPT ![p] = Answered(trace[p], r)]
                      /\ Settle(p, Rejected(Err("Transaction timeout", -1)))
  /\ UNCHANGED <<store, now, ticks, generated, mgr, client, fx, pre>>
  /\ UNCHANGED nonSession

(***************************************************************************)
(* simple-porto upgradeAccount (simple-porto.ts:99-111)                    *)
(***************************************************************************)
\* The prepare responses a caller passes to upgradeAccount.
PreparedUpgrades == {PrepareUpgradeResult("ctx1", "0xauthdigest", "0xexecdigest")}

\* upgradeAccount(account, prepareResponse): both digests are signed and
\* wallet_upgradeAccount is sent.
upgradeAccount(p, account, prepareResponse) ==
  /\ Quiet(p)
  /\ fx' = [fx EXCEPT ![p] = NoFx]
  /\ pre' = [pre EXCEPT ![p] = Snapshot]
  /\ proc' = [proc EXCEPT ![p] = [IdleProc EXCEPT !.op = "upgradeAccount",
                                     !.pc = "suUpgrade", !.account = account]]
  /\ trace' = [trace EXCEPT ![p] =
       <<Exchange("wallet_upgradeAccount",
                  UpgradeAccountRequest(account, prepareResponse))>>]
  /\ UNCHANGED <<store, now, ticks, generated, mgr, client, lastDone>>
  /\ UNCHANGED nonSession

\* The wallet_upgradeAccount response arrives: the body relayCall returned
\* is discarded, so only a transport failure rejects.
SU_UpgradeDone(p, r) ==
  /\ proc[p].pc = "suUpgrade"
  /\ trace' = [trace EXCEPT ![p] = Answered(trace[p], r)]
  /\ Settle(p, IF relayCall(r).ok THEN Resolved(None) ELSE Rejected(relayCall(r).val))
  /\ UNCHANGED <<store, now, ticks, generated, mgr, client, fx, pre>>
  /\ UNCHANGED nonSession

(***************************************************************************)
(* The Porto singleton (lib/porto.ts): init, isEOASetup, setupDelegation   *)
(***************************************************************************)
\* Porto.relayCall: no response.ok check; throws on an error envelope.
portoRelayCall(r) ==
  IF r.net = "fail" THEN Throw(NetworkError)
  ELSE IF r.hasError
       THEN Throw(Err(IF r.errMsg # "" THEN r.errMsg ELSE "Relay call failed", -1))
  ELSE Return(r.result)

WalletNotInitialized == Err("Wallet not initialized", -1)

\* Number.prototype.toString(16)
HexChars == DigitChars \o <<"a", "b", "c", "d", "e", "f">>
RECURSIVE HexDigitsOf(_)
HexDigitsOf(n) ==
  IF n < 16 THEN <<HexChars[n + 1]>>
  ELSE Append(HexDigitsOf(n \div 16), HexChars[(n % 16) + 1])
toString16(n) == IF n < 0 THEN <<"-">> \o HexDigitsOf(-n) ELSE HexDigitsOf(n)

\* '0x' + Math.floor(this.sessionExpiry / 1000).toString(16)
HexSeconds(ms) ==
  Str(<<"0", "x">> \o
      (IF ms.nan THEN <<"N", "a", "N">> ELSE toString16(ms.n \div 1000)))

\* The wallet_prepareUpgradeAccount request of Porto.setupDelegation
PortoPrepareUpgradeRequest(pt) ==
  [address |-> pt.mainAccount.address,
   delegation |-> PROXY,
   capabilities |->
     [authorizeKeys |->
        <<[expiry |-> HexSeconds(pt.sessionExpiry), prehash |-> FALSE,
           publicKey |-> serializePublicKey(pt.sessionAccount.address),
           role |-> "session", type |-> "secp256k1", permissions |-> <<>>]>>],
   chainId |-> CHAIN_ID]

\* The key that signs the digests in Porto.setupDelegation: this.mainAccount
PortoUpgradeSigner(pt) == pt.mainAccount

CapabilitiesResponses ==
  {RelayOk([t |-> "capabilities"]), RelayOk(None), RelayErr("Unknown account"), NetFail}

\* What the call in progress resolves to once setupDelegation has returned
\* ok: init ignores the boolean and returns the two addresses,
\* rotateSessionKey the session address.
PD_Result(p, pt, ok) ==
  IF proc[p].op = "Porto.init"
    THEN Resolved([t |-> "addresses", mainAddress |-> pt.mainAccount.address,
                   sessionAddress |-> pt.sessionAccount.address])
  ELSE IF proc[p].op = "Porto.rotateSessionKey"
    THEN Resolved(pt.sessionAccount.address)
  ELSE Resolved(Bool(ok))

\* Entry of Porto.setupDelegation with the fields pt: it throws on a missing
\* account, otherwise isEOASetup sends wallet_getCapabilities.
PD_Enter(p, pt) ==
  IF pt.mainAccount = None \/ pt.sessionAccount = None
    THEN /\ Settle(p, Rejected(WalletNotInitialized))
         /\ trace' = [trace EXCEPT ![p] = <<>>]
    ELSE /\ proc' = [proc EXCEPT ![p].pc = "pdCaps"]
         /\ trace' = [trace EXCEPT ![p] =
              <<Exchange("wallet_getCapabilities", pt.mainAccount.address)>>]
         /\ UNCHANGED lastDone

\* Porto.init(): getItemAsync(MAIN_WALLET) is issued.
PortoInitCall(p) ==
  /\ Quiet(p)
  /\ proc' = [proc EXCEPT ![p] = [IdleProc EXCEPT !.op = "Porto.init", !.pc = "piReadMain"]]
  /\ trace' = [trace EXCEPT ![p] = <<>>]
  /\ fx' = [fx EXCEPT ![p] = NoFx]
  /\ pre' = [pre EXCEPT ![p] = Snapshot]
  /\ UNCHANGED <<store, now, ticks, generated, mgr, client, lastDone, porto, wvars, kvars>>

\* getItemAsync(MAIN_WALLET) resolves.
PI_ReadMainDone(p) ==
  /\ proc[p].pc = "piReadMain"
  /\ IF store[MAIN_WALLET_KEY] = None
       THEN /\ Len(generated) < MaxKeys
            /\ generated' = Append(generated, "main")
            /\ proc' = [proc EXCEPT ![p].pc = "piWriteMain",
                                    ![p].privateKey = PrivateKey(Len(generated) + 1)]
            /\ fx' = [fx EXCEPT ![p].writes = @ + 1, ![p].gens = @ + 1]
            /\ UNCHANGED porto
       ELSE /\ porto' = [porto EXCEPT
                 !.mainAccount = privateKeyToAccount(store[MAIN_WALLET_KEY])]
            /\ proc' = [proc EXCEPT ![p].pc = "piReadKey"]
            /\ UNCHANGED <<generated, fx>>
  /\ UNCHANGED <<store, now, ticks, mgr, client, trace, pre, lastDone, wvars, kvars>>

\* setItemAsync(MAIN_WALLET) resolves.
PI_WriteMainDone(p) ==
  /\ proc[p].pc = "piWriteMain"
  /\ store' = [store EXCEPT ![MAIN_WALLET_KEY] = proc[p].privateKey]
  /\ porto' = [porto EXCEPT !.mainAccount = privateKeyToAccount(proc[p].privateKey)]
  /\ proc' = [proc EXCEPT ![p].pc = "piReadKey", ![p].privateKey = None]
  /\ UNCHANGED <<now, ticks, generated, mgr, client, trace, fx, pre, lastDone, wvars, kvars>>

\* getItemAsync(SESSION_KEY) resolves.
PI_ReadKeyDone(p) ==
  /\ proc[p].pc = "piReadKey"
  /\ proc' = [proc EXCEPT ![p].pc = "piReadExp", ![p].existingKey = store[SESSION_KEY]]
  /\ UNCHANGED <<store, now, ticks, generated, mgr, client, trace, fx, pre, lastDone,
                 porto, wvars, kvars>>

\* getItemAsync(SESSION_EXPIRY) resolves: a live session is adopted, an
\* expired or missing one is replaced, and setupDelegation is entered.
PI_ReadExpDone(p) ==
  /\ proc[p].pc = "piReadExp"
  /\ LET sessionPrivateKey == proc[p].existingKey
         storedExpiry == store[SESSION_EXPIRY]
         both == sessionPrivateKey # None /\ storedExpiry # None
         live == both /\ LessThan(now, parseInt(storedExpiry))
         parsed == IF both THEN [porto EXCEPT !.sessionExpiry = parseInt(storedExpiry)]
                   ELSE porto
         adopted == [parsed EXCEPT !.sessionAccount = privateKeyToAccount(sessionPrivateKey)]
     IN IF live
          THEN /\ porto' = adopted
               /\ PD_Enter(p, adopted)
               /\ UNCHANGED <<generated, fx>>
        ELSE IF sessionPrivateKey # None /\ ~both
          THEN /\ porto' = parsed
               /\ PD_Enter(p, parsed)
               /\ UNCHANGED <<generated, fx>>
        ELSE /\ Len(generated) < MaxKeys
             /\ generated' = Append(generated, "session")
             /\ porto' = [parsed EXCEPT !.sessionExpiry = Num(now + 24 * HourMs)]
             /\ proc' = [proc EXCEPT ![p].pc = "piWriteKey",
                                     ![p].privateKey = PrivateKey(Len(generated) + 1),
                                     ![p].nowRead = now]
             /\ fx' = [fx EXCEPT ![p].writes = @ + 1, ![p].gens = @ + 1]
             /\ UNCHANGED <<trace, lastDone>>
  /\ UNCHANGED <<store, now, ticks, mgr, client, pre, wvars, kvars>>

\* setItemAsync(SESSION_KEY) resolves.
PI_WriteKeyDone(p) ==
  /\ proc[p].pc = "piWriteKey"
  /\ store' = [store EXCEPT ![SESSION_KEY] = proc[p].privateKey]
  /\ proc' = [proc EXCEPT ![p].pc = "piWriteExp",
                          ![p].expStr = toString(porto.sessionExpiry.n)]
  /\ fx' = [fx EXCEPT ![p].writes = @ + 1]
  /\ UNCHANGED <<now, ticks, generated, mgr, client, trace, pre, lastDone, porto, wvars, kvars>>

\* setItemAsync(SESSION_EXPIRY) resolves; setupDelegation is entered.
PI_WriteExpDone(p) ==
  /\ proc[p].pc = "piWriteExp"
  /\ store' = [store EXCEPT ![SESSION_EXPIRY] = proc[p].expStr]
  /\ LET pt == [porto EXCEPT !.sessionAccount = privateKeyToAccount(proc[p].privateKey)]
     IN porto' = pt /\ PD_Enter(p, pt)
  /\ UNCHANGED <<now, ticks, generated, mgr, client, fx, pre, wvars, kvars>>

\* Porto.rotateSessionKey(): a key is generated, the expiry set, and
\* setItemAsync(SESSION_KEY) is issued.
PortoRotateSessionKey(p) ==
  /\ Quiet(p)
  /\ Len(generated) < MaxKeys
  /\ generated' = Append(generated, "session")
  /\ porto' = [porto EXCEPT !.sessionExpiry = Num(now + 24 * HourMs)]
  /\ proc' = [proc EXCEPT ![p] = [IdleProc EXCEPT !.op = "Porto.rotateSessionKey",
                                     !.pc = "prWriteKey", !.nowRead = now,
                                     !.privateKey = PrivateKey(Len(generated) + 1)]]
  /\ trace' = [trace EXCEPT ![p] = <<>>]
  /\ fx' = [fx EXCEPT ![p] = [NoFx EXCEPT !.writes = 1, !.gens = 1]]
  /\ pre' = [pre EXCEPT ![p] = Snapshot]
  /\ UNCHANGED <<store, now, ticks, mgr, client, lastDone, wvars, kvars>>

\* setItemAsync(SESSION_KEY) resolves; setItemAsync(SESSION_EXPIRY) is issued.
PR_WriteKeyDone(p) ==
  /\ proc[p].pc = "prWriteKey"
  /\ store' = [store EXCEPT ![SESSION_KEY] = proc[p].privateKey]
  /\ proc' = [proc EXCEPT ![p].pc = "prWriteExp",
                          ![p].expStr = toString(porto.sessionExpiry.n)]
  /\ fx' = [fx EXCEPT ![p].writes = @ + 1]
  /\ UNCHANGED <<now, ticks, generated, mgr, client, trace, pre, lastDone, porto, wvars, kvars>>

\* setItemAsync(SESSION_EXPIRY) resolves; the new account becomes the
\* session account and setupDelegation is entered.
PR_WriteExpDone(p) ==
  /\ proc[p].pc = "prWriteExp"
  /\ store' = [store EXCEPT ![SESSION_EXPIRY] = proc[p].expStr]
  /\ LET pt == [porto EXCEPT !.sessionAccount = privateKeyToAccount(proc[p].privateKey)]
     IN porto' = pt /\ PD_Enter(p, pt)
  /\ UNCHANGED <<now, ticks, generated, mgr, client, fx, pre, wvars, kvars>>

\* A direct call of Porto.setupDelegation().
PortoSetupDelegation(p) ==
  /\ Quiet(p)
  /\ fx' = [fx EXCEPT ![p] = NoFx]
  /\ pre' = [pre EXCEPT ![p] = Snapshot]
  /\ LET base == [IdleProc EXCEPT !.op = "Porto.setupDelegation"]
     IN IF porto.mainAccount = None \/ porto.sessionAccount = None
          THEN /\ proc' = [proc EXCEPT ![p] = [base EXCEPT !.pc = "done",
                                !.result = Rejected(WalletNotInitialized)]]
               /\ lastDone' = [op |-> base.op, mgr |-> base.mgr,
                               result |-> Rejected(WalletNotInitialized)]
               /\ trace' = [trace EXCEPT ![p] = <<>>]
          ELSE /\ proc' = [proc EXCEPT ![p] = [base EXCEPT !.pc = "pdCaps"]]
               /\ trace' = [trace EXCEPT ![p] =
                    <<Exchange("wallet_getCapabilities", porto.mainAccount.address)>>]
               /\ UNCHANGED lastDone
  /\ UNCHANGED <<store, now, ticks, generated, mgr, client, porto, wvars, kvars>>

\* The wallet_getCapabilities response arrives: a truthy result means the
\* delegation is taken as set up; otherwise the prepare request is sent.
PD_CapsDone(p, r) ==
  /\ proc[p].pc = "pdCaps"
  /\ LET out == portoRelayCall(r)
     IN IF out.ok /\ out.val # None
          THEN /\ trace' = [trace EXCEPT ![p] = Answered(trace[p], r)]
               /\ Settle(p, PD_Result(p, porto, TRUE))
          ELSE /\ trace' = [trace EXCEPT ![p] =
                    Append(Answered(trace[p], r),
                           Exchange("wallet_prepareUpgradeAccount",
                                    PortoPrepareUpgradeRequest(porto)))]
               /\ proc' = [proc EXCEPT ![p].pc = "pdPrepare"]
               /\ UNCHANGED lastDone
  /\ UNCHANGED <<store, now, ticks, generated, mgr, client, fx, pre, porto, wvars, kvars>>

\* The wallet_prepareUpgradeAccount response arrives.
PD_PrepareDone(p, r) ==
  /\ proc[p].pc = "pdPrepare"
  /\ LET out == portoRelayCall(r)
     IN IF out.ok /\ out.val.t = "prepareUpgrade"
          THEN /\ trace' = [trace EXCEPT ![p] =
                    Append(Answered(trace[p], r),
                           Exchange("wallet_upgradeAccount",
                                    UpgradeAccountRequest(PortoUpgradeSigner(porto),
                                                          out.val)))]
               /\ proc' = [proc EXCEPT ![p].pc = "pdUpgrade",
                                       ![p].prepareResponse = out.val]
               /\ UNCHANGED lastDone
          ELSE /\ trace' = [trace EXCEPT ![p] = Answered(trace[p], r)]
               /\ Settle(p, PD_Result(p, porto, FALSE))
  /\ UNCHANGED <<store, now, ticks, generated, mgr, client, fx, pre, porto, wvars, kvars>>

\* The wallet_upgradeAccount response arrives.
PD_UpgradeDone(p, r) ==
  /\ proc[p].pc = "pdUpgrade"
  /\ trace' = [trace EXCEPT ![p] = Answered(trace[p], r)]
  /\ Settle(p, PD_Result(p, porto, portoRelayCall(r).ok))
  /\ UNCHANGED <<store, now, ticks, generated, mgr, client, fx, pre, porto, wvars, kvars>>

(***************************************************************************)
(* Porto.sendTransaction (lib/porto.ts:186-243)                            *)
(***************************************************************************)
\* lib/porto.ts:27  PORTO_CONFIG.ethAddress
PortoFeeToken == "0xEeeeeEeeeEeEeeEeEeEeeEEEeeeeEeeeeeeeEEeE"
\* lib/porto.ts:232  while (attempts < 30)
PortoMaxAttempts == 30

SessionNotInitialized == Err("Session not initialized", -1)

\* lib/porto.ts:196-213  the wallet_prepareCalls request
PortoPrepareCallsRequest(pt, calls) ==
  [from |-> pt.mainAccount.address, chainId |-> CHAIN_ID, calls |-> calls,
   capabilities |-> [meta |-> [feeToken |-> PortoFeeToken]],
   key |-> RequestKey(pt.sessionAccount)]

\* lib/porto.ts:219-225  the wallet_sendPreparedCalls request
PortoSendRequest(pt, prepareResult) ==
  [context |-> prepareResult.context,
   signature |-> Sign(pt.sessionAccount, prepareResult.digest)]

\* lib/porto.ts:228  sendResult.id
PortoBundleId(sendResult) ==
  IF sendResult.t = "sendResult" THEN sendResult.id ELSE None

\* lib/porto.ts:236  status.status === 200 || status.status === 'success'
PortoIsSuccess(s) == (s.t = "num" /\ s.n = 200) \/ (s.t = "str" /\ s.s = "success")

\* lib/porto.ts:232-240  what follows a poll that was not a success: poll
\* again while attempts < 30, otherwise leave the loop and return.
PortoLoopContinues(attempts) == attempts < PortoMaxAttempts

\* sendTransaction(to, data, value): throws without session account,
\* otherwise sends wallet_prepareCalls.
PortoSendTransaction(p, call) ==
  /\ Quiet(p)
  /\ fx' = [fx EXCEPT ![p] = NoFx]
  /\ pre' = [pre EXCEPT ![p] = Snapshot]
  /\ LET base == [IdleProc EXCEPT !.op = "Porto.sendTransaction"]
         thrown == IF porto.sessionAccount = None THEN SessionNotInitialized
                   ELSE TypeError
     IN IF porto.sessionAccount = None \/ porto.mainAccount = None
          THEN /\ proc' = [proc EXCEPT ![p] = [base EXCEPT !.pc = "done",
                                                  !.result = Rejected(thrown)]]
               /\ lastDone' = [op |-> base.op, mgr |-> base.mgr,
                               result |-> Rejected(thrown)]
               /\ trace' = [trace EXCEPT ![p] = <<>>]
          ELSE /\ proc' = [proc EXCEPT ![p] = [base EXCEPT !.pc = "ptPrepare"]]
               /\ trace' = [trace EXCEPT ![p] =
                    <<Exchange("wallet_prepareCalls",
                               PortoPrepareCallsRequest(porto, <<call>>))>>]
               /\ UNCHANGED lastDone
  /\ UNCHANGED <<store, now, ticks, generated, mgr, client, porto, wvars, kvars>>

\* The wallet_prepareCalls response arrives; the digest is signed with the
\* session key and wallet_sendPreparedCalls is sent.
PT_PrepareDone(p, r) ==
  /\ proc[p].pc = "ptPrepare"
  /\ LET out == portoRelayCall(r)
     IN IF ~out.ok
          THEN /\ trace' = [trace EXCEPT ![p] = Answered(trace[p], r)]
               /\ Settle(p, Rejected(out.val))
        ELSE IF out.val = None \/ porto.sessionAccount = None
          THEN /\ trace' = [trace EXCEPT ![p] = Answered(trace[p], r)]
               /\ Settle(p, Rejected(TypeError))
        ELSE /\ trace' = [trace EXCEPT ![p] =
                  Append(Answered(trace[p], r),
                         Exchange("wallet_sendPreparedCalls",
                                  PortoSendRequest(porto, out.val)))]
             /\ proc' = [proc EXCEPT ![p].pc = "ptSend"]
             /\ UNCHANGED lastDone
  /\ UNCHANGED <<store, now, ticks, generated, mgr, client, fx, pre, porto, wvars, kvars>>

\* The wallet_sendPreparedCalls response arrives; polling starts with
\* sendResult.id.
PT_SendDone(p, r) ==
  /\ proc[p].pc = "ptSend"
  /\ LET out == portoRelayCall(r)
     IN IF ~out.ok
          THEN /\ trace' = [trace EXCEPT ![p] = Answered(trace[p], r)]
               /\ Settle(p, Rejected(out.val))
        ELSE IF out.val = None
          THEN /\ trace' = [trace EXCEPT ![p] = Answered(trace[p], r)]
               /\ Settle(p, Rejected(TypeError))
        ELSE /\ trace' = [trace EXCEPT ![p] =
                  Append(Answered(trace[p], r),
                         Exchange("wallet_getCallsStatus", PortoBundleId(out.val)))]
             /\ proc' = [proc EXCEPT ![p].pc = "ptPoll",
                                     ![p].bundleId = PortoBundleId(out.val),
                                     ![p].attempts = 0]
             /\ UNCHANGED lastDone
  /\ UNCHANGED <<store, now, ticks, generated, mgr, client, fx, pre, porto, wvars, kvars>>

\* A wallet_getCallsStatus response arrives: a success status ends the
\* loop, another status is counted; when the loop ends the last status is
\* returned.
PT_PollDone(p, r) ==
  /\ proc[p].pc = "ptPoll"
  /\ LET out == portoRelayCall(r)
     IN IF ~out.ok
          THEN /\ trace' = [trace EXCEPT ![p] = Answered(trace[p], r)]
               /\ Settle(p, Rejected(out.val))
        ELSE IF out.val = None
          THEN /\ trace' = [trace EXCEPT ![p] = Answered(trace[p], r)]
               /\ Settle(p, Rejected(TypeError))
        ELSE IF ~PortoIsSuccess(out.val.status) /\ PortoLoopContinues(proc[p].attempts + 1)
          THEN /\ trace' = [trace EXCEPT ![p][Len(trace[p])].n = @ + 1,
                                         ![p][Len(trace[p])].resp = r]
               /\ proc' = [proc EXCEPT ![p].attempts = @ + 1]
               /\ UNCHANGED lastDone
        ELSE /\ trace' = [trace EXCEPT ![p] = Answered(trace[p], r)]
             /\ Settle(p, Resolved(TxResult(proc[p].bundleId, out.val)))
  /\ UNCHANGED <<store, now, ticks, generated, mgr, client, fx, pre, porto, wvars, kvars>>

\* Porto.reset(): deleteItemAsync(MAIN_WALLET) is issued.
PortoReset(p) ==
  /\ Quiet(p)
  /\ proc' = [proc EXCEPT ![p] = [IdleProc EXCEPT !.op = "Porto.reset", !.pc = "rsDelMain"]]
  /\ trace' = [trace EXCEPT ![p] = <<>>]
  /\ fx' = [fx EXCEPT ![p] = NoFx]
  /\ pre' = [pre EXCEPT ![p] = Snapshot]
  /\ UNCHANGED <<store, now, ticks, generated, mgr, client, lastDone, porto, wvars, kvars>>

\* deleteItemAsync(MAIN_WALLET) resolves.
RS_DelMainDone(p) ==
  /\ proc[p].pc = "rsDelMain"
  /\ store' = [store EXCEPT ![MAIN_WALLET_KEY] = None]
  /\ proc' = [proc EXCEPT ![p].pc = "rsDelKey"]
  /\ UNCHANGED <<now, ticks, generated, mgr, client, trace, fx, pre, lastDone, porto, wvars, kvars>>

\* deleteItemAsync(SESSION_KEY) resolves.
RS_DelKeyDone(p) ==
  /\ proc[p].pc = "rsDelKey"
  /\ store' = [store EXCEPT ![SESSION_KEY] = None]
  /\ proc' = [proc EXCEPT ![p].pc = "rsDelExp"]
  /\ UNCHANGED <<now, ticks, generated, mgr, client, trace, fx, pre, lastDone, porto, wvars, kvars>>

\* deleteItemAsync(SESSION_EXPIRY) resolves; the fields are cleared.
RS_DelExpDone(p) ==
  /\ proc[p].pc = "rsDelExp"
  /\ store' = [store EXCEPT ![SESSION_EXPIRY] = None]
  /\ porto' = [mainAccount |-> None, sessionAccount |-> None, sessionExpiry |-> Num(0)]
  /\ Settle(p, Resolved(None))
  /\ UNCHANGED <<now, ticks, generated, mgr, client, trace, fx, pre, wvars, kvars>>

\* The app is started again (HomeScreen.tsx:7-8, SettingsScreen.tsx:15-16
\* and lib/porto.ts:342 run at module load): calls in flight are gone, every
\* object is newly constructed, the secure store and the clock persist.
Restart ==
  /\ mgr' = [m \in Mgrs |-> NewManager]
  /\ client' = [m \in Mgrs |-> None]
  /\ porto' = [mainAccount |-> None, sessionAccount |-> None, sessionExpiry |-> Num(0)]
  /\ proc' = [p \in Procs |-> IdleProc]
  /\ trace' = [p \in Procs |-> <<>>]
  /\ fx' = [p \in Procs |-> NoFx]
  /\ pre' = [p \in Procs |-> [store |-> [k \in StoreKeys |-> None],
                               mgr |-> [m \in Mgrs |-> NewManager],
                               client |-> [m \in Mgrs |-> None],
                               last |-> None]]
  /\ lastDone' = None
  /\ UNCHANGED <<store, now, ticks, generated, wvars, kvars>>

(***************************************************************************)
(* Properties of the SessionManager.                                       *)
(***************************************************************************)
Finished(p, op) == proc[p].op = op /\ proc[p].pc = "done"
HadSession(p) ==
  pre[p].store[SESSION_KEY] # None /\ pre[p].store[SESSION_EXPIRY] # None

\* createSessionKey found a persisted session whose expiry was in the past
\* when it read the clock.
FoundExpiredSession(p) ==
  /\ Finished(p, "createSessionKey") /\ HadSession(p)
  /\ ~parseInt(pre[p].store[SESSION_EXPIRY]).nan
  /\ parseInt(pre[p].store[SESSION_EXPIRY]).n < proc[p].nowRead

\* createSessionKey found a persisted session whose expiry was in the future
\* when it read the clock.
FoundLiveSession(p) ==
  /\ Finished(p, "createSessionKey") /\ HadSession(p)
  /\ LessThan(proc[p].nowRead, parseInt(pre[p].store[SESSION_EXPIRY]))

\* C5: with the persisted expiry in the past, createSessionKey generates a
\* key, any address it returns differs from the previous session key's, and
\* the expiry it persists is strictly greater than the time of the call,
\* whatever configuration is in force.
C5_ExpiredSessionRegenerated ==
  \A p \in Procs :
    FoundExpiredSession(p) =>
      /\ fx[p].gens = 1
      /\ proc[p].result.kind = "resolved" =>
           proc[p].result.val # Address(pre[p].store[SESSION_KEY])
      /\ store[SESSION_EXPIRY] # None
      /\ LessThan(proc[p].nowRead, parseInt(store[SESSION_EXPIRY]))

\* C6: with a session key and a future expiry persisted, createSessionKey
\* returns the address of that key, generates nothing, writes nothing to the
\* store, sends nothing to the relay and leaves the main account, the
\* configuration and the client as they were.
C6_LiveSessionReused ==
  \A p \in Procs :
    FoundLiveSession(p) =>
      /\ proc[p].result = Resolved(Address(pre[p].store[SESSION_KEY]))
      /\ fx[p] = NoFx
      /\ store = pre[p].store
      /\ trace[p] = <<>>
      /\ client = pre[p].client
      /\ mgr[proc[p].mgr].mainAccount = pre[p].mgr[proc[p].mgr].mainAccount
      /\ mgr[proc[p].mgr].config = pre[p].mgr[proc[p].mgr].config

C6_Witness ==
  \E p \in Procs :
    /\ FoundLiveSession(p)
    /\ mgr[proc[p].mgr].sessionAccount = privateKeyToAccount(store[SESSION_KEY])
    /\ client[proc[p].mgr] # None

\* C7: initMainWallet returns the address of the persisted main key without
\* generating or writing when one is persisted, and a call that directly
\* follows another initMainWallet returns the same address.
C7_InitMainWalletIdempotent ==
  \A p \in Procs :
    Finished(p, "initMainWallet") =>
      /\ pre[p].store[MAIN_WALLET_KEY] # None =>
           /\ fx[p] = NoFx
           /\ store = pre[p].store
           /\ proc[p].result = Resolved(Address(pre[p].store[MAIN_WALLET_KEY]))
      /\ (pre[p].last # None /\ pre[p].last.op = "initMainWallet") =>
           proc[p].result = pre[p].last.result

C7_Witness ==
  \E p \in Procs :
    /\ Finished(p, "initMainWallet")
    /\ pre[p].last # None /\ pre[p].last.op = "initMainWallet"
    /\ pre[p].store[MAIN_WALLET_KEY] # None
    /\ proc[p].result = Resolved(Address(store[MAIN_WALLET_KEY]))

\* C8: under overlapping initMainWallet / createSessionKey calls no persisted
\* key is replaced behind a caller's back: every manager that holds a main
\* key holds the persisted one, and every createSessionKey that returned an
\* address returned the address of the persisted session key.
C8_NoLostUpdate ==
  /\ \A m \in Mgrs :
       mgr[m].mainAccount # None => mgr[m].mainAccount.pk = store[MAIN_WALLET_KEY]
  /\ \A p \in Procs :
       (Finished(p, "createSessionKey") /\ proc[p].result.kind = "resolved") =>
          (store[SESSION_KEY] # None /\ proc[p].result.val = Address(store[SESSION_KEY]))

(***************************************************************************)
(* Properties of the relay handshakes.                                     *)
(***************************************************************************)
\* A relay call succeeded: the exchange completed and carried no error.
RelaySucceeded(r) == r # None /\ ~IsTransportFailure(r) /\ ~r.hasError

\* Both calls of the delegation handshake were made and both succeeded.
BothUpgradeCallsSucceeded(tr) ==
  /\ Len(tr) = 2
  /\ tr[1].method = "wallet_prepareUpgradeAccount" /\ RelaySucceeded(tr[1].resp)
  /\ tr[2].method = "wallet_upgradeAccount" /\ RelaySucceeded(tr[2].resp)

\* C4: on an initialized PortoClient, setupDelegation never throws: it
\* resolves to true exactly when both wallet_prepareUpgradeAccount and
\* wallet_upgradeAccount succeeded, and to false when either call failed
\* with a relay error or a transport error.
C4_SetupDelegationResolvesToOutcome ==
  \A p \in Procs :
    (Finished(p, "setupDelegation") /\ pre[p].client[proc[p].mgr] # None) =>
      /\ proc[p].result.kind = "resolved"
      /\ proc[p].result.val = Bool(BothUpgradeCallsSucceeded(trace[p]))
      /\ (\E i \in 1..Len(trace[p]) : ~RelaySucceeded(trace[p][i].resp))
           => proc[p].result.val = Bool(FALSE)

\* A relay error from wallet_upgradeAccount made setupDelegation resolve to
\* false.
C4_Witness ==
  \E p \in Procs :
    /\ Finished(p, "setupDelegation")
    /\ Len(trace[p]) = 2
    /\ RelaySucceeded(trace[p][1].resp)
    /\ trace[p][2].resp = RelayErr("Invalid signature")
    /\ proc[p].result = Resolved(Bool(FALSE))

\* The i-th request of a handshake follows a request of the given method that
\* was answered with a result of the given kind.
FollowsAnswer(tr, i, method, kind) ==
  /\ i > 1
  /\ tr[i - 1].method = method
  /\ RelaySucceeded(tr[i - 1].resp)
  /\ tr[i - 1].resp.result.t = kind

\* The key generated as a main key and persisted as the main wallet.
IsMainKey(pk) ==
  /\ pk.t = "pk" /\ pk.id \in 1..Len(generated)
  /\ generated[pk.id] = "main"
  /\ store[MAIN_WALLET_KEY] = pk

\* C9: every wallet_sendPreparedCalls request carries the context of the
\* wallet_prepareCalls response that precedes it, and the signature the
\* account of that handshake produced for the digest of that response.
C9_SubmissionCarriesPreparedContextAndSignature ==
  \A p \in Procs : \A i \in 1..Len(trace[p]) :
    trace[p][i].method = "wallet_sendPreparedCalls" =>
      /\ FollowsAnswer(trace[p], i, "wallet_prepareCalls", "prepareCalls")
      /\ trace[p][i].params.context = trace[p][i - 1].resp.result.context
      /\ trace[p][i].params.signature.over = trace[p][i - 1].resp.result.digest
      /\ Address(trace[p][i].params.signature.by) = trace[p][i - 1].params.from

\* Both submission paths sent a wallet_sendPreparedCalls request after a
\* prepare response whose context is "ctxB".
C9_Witness ==
  /\ proc["p2"].op = "executeTransaction" /\ Len(trace["p2"]) >= 2
  /\ trace["p2"][2].method = "wallet_sendPreparedCalls"
  /\ trace["p2"][1].resp.result.context = "ctxB"
  /\ proc["p3"].op = "sendTransaction" /\ Len(trace["p3"]) >= 2
  /\ trace["p3"][2].method = "wallet_sendPreparedCalls"
  /\ trace["p3"][1].resp.result.context = "ctxB"

\* C10: every wallet_upgradeAccount request carries the unmodified context
\* of the wallet_prepareUpgradeAccount response that precedes it, with the
\* auth and the exec digest of that response each signed by the main key.
C10_UpgradeSignedByMainKeyWithPreparedContext ==
  \A p \in Procs : \A i \in 1..Len(trace[p]) :
    trace[p][i].method = "wallet_upgradeAccount" =>
      /\ FollowsAnswer(trace[p], i, "wallet_prepareUpgradeAccount", "prepareUpgrade")
      /\ LET prepared == trace[p][i - 1].resp.result
             sent == trace[p][i].params
         IN /\ sent.context = prepared.context
            /\ sent.signatures.auth.over = prepared.digests.auth
            /\ sent.signatures.exec.over = prepared.digests.exec
            /\ IsMainKey(sent.signatures.auth.by)
            /\ IsMainKey(sent.signatures.exec.by)

\* A session key exists, and both the SessionManager path and the Porto
\* singleton sent wallet_upgradeAccount for a prepare response whose two
\* digests differ.
C10_Witness ==
  /\ proc["p2"].op = "createSessionKey" /\ Len(trace["p2"]) = 2
  /\ trace["p2"][2].method = "wallet_upgradeAccount"
  /\ trace["p2"][1].resp.result.context = "ctx1"
  /\ proc["p3"].op = "Porto.init" /\ Len(trace["p3"]) = 3
  /\ trace["p3"][3].method = "wallet_upgradeAccount"
  /\ trace["p3"][2].resp.result.context = "ctx1"

\* The operations of PortoClient that run a relay handshake.
ClientHandshakeOps == {"setupDelegation", "createSessionKey", "executeTransaction"}

\* The i-th request of a handshake follows a request of the given method that
\* succeeded.
FollowsSuccess(tr, i, method) ==
  i > 1 /\ tr[i - 1].method = method /\ RelaySucceeded(tr[i - 1].resp)

\* C11: in a PortoClient handshake wallet_upgradeAccount is requested only
\* after wallet_prepareUpgradeAccount succeeded, wallet_sendPreparedCalls only
\* after wallet_prepareCalls succeeded, and wallet_getCallsStatus only after
\* wallet_sendPreparedCalls yielded a bundle id; after a failed step no
\* further request is sent; a successful setupDelegation has sent exactly 2
\* requests and a resolved executeTransaction exactly 3.
C11_HandshakeOrderedAndAborting ==
  \A p \in Procs :
    proc[p].op \in ClientHandshakeOps =>
      /\ \A i \in 1..Len(trace[p]) :
           /\ trace[p][i].method = "wallet_upgradeAccount" =>
                FollowsSuccess(trace[p], i, "wallet_prepareUpgradeAccount")
           /\ trace[p][i].method = "wallet_sendPreparedCalls" =>
                FollowsSuccess(trace[p], i, "wallet_prepareCalls")
           /\ trace[p][i].method = "wallet_getCallsStatus" =>
                /\ FollowsSuccess(trace[p], i, "wallet_sendPreparedCalls")
                /\ trace[p][i - 1].resp.result # None
           /\ i < Len(trace[p]) => RelaySucceeded(trace[p][i].resp)
      /\ (Finished(p, "setupDelegation") /\ proc[p].result = Resolved(Bool(TRUE)))
           => Len(trace[p]) = 2
      /\ (Finished(p, "executeTransaction") /\ proc[p].result.kind = "resolved")
           => Len(trace[p]) = 3

\* executeTransaction was aborted by a relay error from
\* wallet_sendPreparedCalls: two requests were sent and the call rejected.
C11_Witness ==
  \E p \in Procs :
    /\ Finished(p, "executeTransaction")
    /\ Len(trace[p]) = 2
    /\ trace[p][2].resp = RelayErr("Invalid signature")
    /\ proc[p].result.kind = "rejected"

\* C12: PortoClient.rpcCall resolves an HTTP exchange to one outcome: a
\* response that is not ok throws an error carrying the HTTP status;
\* otherwise a body with an `error` field throws an error carrying the
\* relay's message; otherwise the body's `result` is returned unchanged.
\* Observed on executeTransaction, whose first call rejects with what
\* rpcCall threw and whose status is what rpcCall returned.
C12_RpcCallOneOutcome ==
  \A p \in Procs :
    (Finished(p, "executeTransaction") /\ Len(trace[p]) >= 1) =>
      LET r == trace[p][1].resp
      IN /\ r.net = "fail" => proc[p].result = Rejected(NetworkError)
         /\ (r.net = "ok" /\ ~r.httpOk) =>
              proc[p].result = Rejected(Err("HTTP error! status: ", r.httpStatus))
         /\ (r.net = "ok" /\ r.httpOk /\ r.hasError) =>
              /\ proc[p].result.kind = "rejected"
              /\ proc[p].result.val.t = "error"
              /\ r.errMsg # "" => proc[p].result = Rejected(Err(r.errMsg, -1))
         /\ ~RelaySucceeded(r) => Len(trace[p]) = 1
         /\ (Len(trace[p]) = 3 /\ RelaySucceeded(trace[p][3].resp)) =>
              /\ proc[p].result.kind = "resolved"
              /\ proc[p].result.val.status = trace[p][3].resp.result

\* executeTransaction rejected with the status of an HTTP 404 response.
C12_Witness ==
  \E p \in Procs :
    /\ Finished(p, "executeTransaction")
    /\ Len(trace[p]) = 1
    /\ trace[p][1].resp = HttpFail(404)
    /\ proc[p].result = Rejected(Err("HTTP error! status: ", 404))

\* The operations of the simple-porto module.
SimpleOps == {"sendTransaction", "upgradeAccount"}

\* C13: in simple-porto, whenever the relay answered a call with an `error`
\* envelope the calling operation failed; in particular upgradeAccount
\* rejected when wallet_upgradeAccount returned an error.
C13_SimpleRelayErrorFailsOperation ==
  \A p \in Procs :
    (proc[p].op \in SimpleOps /\ proc[p].pc = "done") =>
      ((\E i \in 1..Len(trace[p]) : trace[p][i].resp # None /\ trace[p][i].resp.hasError)
         => proc[p].result.kind = "rejected")

\* The key a wallet_prepareUpgradeAccount request of the Porto singleton asks
\* to authorize.
AuthorizedKey(exchange) == exchange.params.capabilities.authorizeKeys[1].publicKey

\* C14: a completed Porto.rotateSessionKey has replaced the persisted and
\* in-memory session key and expiry with a newly generated pair and has
\* sent wallet_prepareUpgradeAccount for the new key, followed by
\* wallet_upgradeAccount unless the prepare step failed.
C14_RotateReplacesAndReauthorizes ==
  \A p \in Procs :
    (Finished(p, "Porto.rotateSessionKey") /\ proc[p].result.kind = "resolved") =>
      /\ porto.sessionAccount.pk # pre[p].store[SESSION_KEY]
      /\ store[SESSION_KEY] = porto.sessionAccount.pk
      /\ store[SESSION_EXPIRY] = toString(proc[p].nowRead + 24 * HourMs)
      /\ \E i \in 1..Len(trace[p]) :
           /\ trace[p][i].method = "wallet_prepareUpgradeAccount"
           /\ AuthorizedKey(trace[p][i]) =
                serializePublicKey(porto.sessionAccount.address)
           /\ RelaySucceeded(trace[p][i].resp) /\ trace[p][i].resp.result # None
                => /\ i < Len(trace[p])
                   /\ trace[p][i + 1].method = "wallet_upgradeAccount"

\* A status the poll loop of a wallet treats as final.
IsTerminalStatus(s) == PortoIsSuccess(s) \/ (s.t = "num" /\ s.n >= 400)

\* C15: Porto.sendTransaction never resolves with a status that is neither
\* terminal success nor terminal failure; after all 30 polls returned a
\* non-terminal status it rejects with a timeout error.
C15_PortoSendTimesOut ==
  \A p \in Procs :
    Finished(p, "Porto.sendTransaction") =>
      /\ proc[p].result.kind = "resolved" =>
           IsTerminalStatus(proc[p].result.val.status.status)
      /\ (Len(trace[p]) = 3 /\ trace[p][3].n = PortoMaxAttempts
            /\ RelaySucceeded(trace[p][3].resp)
            /\ trace[p][3].resp.result # None
            /\ ~IsTerminalStatus(trace[p][3].resp.result.status))
           => proc[p].result = Rejected(Err("Transaction timeout", -1))

\* A poll response carrying a status object whose status is 200 or the
\* string "success".
IsSuccessResponse(r) ==
  /\ RelaySucceeded(r) /\ r.result.t = "status"
  /\ \/ r.result.status = NumStatus(200)
     \/ r.result.status = StrStatus("success")

\* C16: in PortoClient.waitForTransaction the first poll that returns status
\* 200 or "success" is the last poll, and the call resolves with that
\* status object.
C16_ClientSuccessIsTerminal ==
  wImpl = "client" =>
    \A i \in 1..Len(wHist) :
      IsSuccessResponse(wHist[i].resp) =>
        /\ i = Len(wHist)
        /\ wPc = "done"
        /\ wResult = Resolved(wHist[i].resp.result)

\* A poll response carrying status 200 and a receipt.
IsConfirmedResponse(r) ==
  /\ RelaySucceeded(r) /\ r.result.t = "status"
  /\ r.result.status = NumStatus(200) /\ r.result.receipts # None

\* C17: when a wallet_getCallsStatus poll of sendTransaction has returned
\* status 200 with a receipt, no further poll is made; when that was the
\* first poll the call has resolved, that one poll made, with the bundle id
\* wallet_sendPreparedCalls returned and the status object of that poll.
C17_FirstPollSuccessResolves ==
  \A p \in Procs :
    (proc[p].op = "sendTransaction" /\ Len(trace[p]) = 3
       /\ trace[p][3].resp # None /\ IsConfirmedResponse(trace[p][3].resp)) =>
      /\ proc[p].pc = "done"
      /\ trace[p][3].n = 1 =>
           /\ trace[p][3].params = SimpleSendResult(trace[p][2].resp.result).id
           /\ proc[p].result =
                Resolved(TxResult(SimpleSendResult(trace[p][2].resp.result).id,
                                  trace[p][3].resp.result))

\* sendTransaction resolved after one poll that returned 200 and a receipt.
C17_Witness ==
  \E p \in Procs :
    /\ Finished(p, "sendTransaction") /\ Len(trace[p]) = 3
    /\ trace[p][3].n = 1
    /\ IsConfirmedResponse(trace[p][3].resp)
    /\ trace[p][3].resp.result.receipts = [status |-> "0x1"]
    /\ proc[p].result.kind = "resolved"

\* createSessionKey was called with a session key persisted and no expiry.
FoundKeyWithoutExpiry(p) ==
  /\ Finished(p, "createSessionKey")
  /\ pre[p].store[SESSION_KEY] # None /\ pre[p].store[SESSION_EXPIRY] = None

\* C18: a persisted session key without persisted expiry is not loaded by
\* createSessionKey: a new key is generated, it and a new expiry are
\* persisted, and the new key is the manager's session key.
C18_KeyWithoutExpiryRegenerated ==
  \A p \in Procs :
    FoundKeyWithoutExpiry(p) =>
      /\ fx[p].gens = 1
      /\ store[SESSION_KEY] # pre[p].store[SESSION_KEY]
      /\ store[SESSION_KEY] = PrivateKey(Len(generated))
      /\ store[SESSION_EXPIRY] = toString(NewExpiry(proc[p].nowRead,
                                                    mgr[proc[p].mgr].config))
      /\ mgr[proc[p].mgr].sessionAccount = privateKeyToAccount(store[SESSION_KEY])

\* After a restart between the two writes of an earlier createSessionKey,
\* createSessionKey returned the address of a new key.
C18_Witness ==
  \E p \in Procs :
    /\ FoundKeyWithoutExpiry(p)
    /\ proc[p].result = Resolved(Address(store[SESSION_KEY]))
    /\ store[SESSION_KEY] # pre[p].store[SESSION_KEY]

\* The call that settled last, with no call in progress since.
JustFinished(op) == AllQuiet /\ lastDone # None /\ lastDone.op = op

\* C19: after clearSession the persisted session key and expiry are gone and
\* the manager has no session (getSessionAddress null, session not valid),
\* the main key untouched; after resetAll the persisted main key is gone
\* too and getMainAddress is null; after Porto.reset all three persisted
\* values and the singleton's accounts are gone.
C19_ClearAndResetDropSecrets ==
  /\ (JustFinished("clearSession") \/ JustFinished("resetAll")) =>
       /\ store[SESSION_KEY] = None /\ store[SESSION_EXPIRY] = None
       /\ getSessionAddress(lastDone.mgr) = None
       /\ ~isSessionValid(lastDone.mgr)
  /\ JustFinished("clearSession") =>
       /\ store[MAIN_WALLET_KEY] = pre["p1"].store[MAIN_WALLET_KEY]
       /\ getMainAddress(lastDone.mgr) =
            (IF pre["p1"].mgr[lastDone.mgr].mainAccount = None THEN None
             ELSE pre["p1"].mgr[lastDone.mgr].mainAccount.address)
  /\ JustFinished("resetAll") =>
       /\ store[MAIN_WALLET_KEY] = None
       /\ getMainAddress(lastDone.mgr) = None
  /\ JustFinished("Porto.reset") =>
       /\ \A k \in StoreKeys : store[k] = None
       /\ porto.mainAccount = None /\ porto.sessionAccount = None
       /\ porto.sessionExpiry = Num(0)

\* resetAll finished on a manager that had a main key and a session.
C19_Witness ==
  /\ JustFinished("resetAll")
  /\ pre["p1"].mgr["home"].mainAccount # None
  /\ pre["p1"].mgr["home"].sessionAccount # None
  /\ pre["p1"].store[SESSION_EXPIRY] # None

\* The operations of PortoClient that need the account.
ClientAccountOps ==
  {"setupDelegation", "prepareCalls", "sendPreparedCalls", "executeTransaction"}

\* C20: on a PortoClient that has not been initialized, setupDelegation,
\* prepareCalls, sendPreparedCalls and executeTransaction reject with
\* 'Client not initialized' and send no request to the relay.
C20_UninitializedClientRejectsLocally ==
  \A p \in Procs :
    (proc[p].op \in ClientAccountOps /\ proc[p].pc = "done"
       /\ pre[p].client[proc[p].mgr] = None) =>
      /\ proc[p].result = Rejected(Err("Client not initialized", -1))
      /\ trace[p] = <<>>

\* sendPreparedCalls was rejected on a client without account.
C20_Witness ==
  \E p \in Procs :
    /\ Finished(p, "sendPreparedCalls")
    /\ pre[p].client[proc[p].mgr] = None
    /\ proc[p].result.kind = "rejected"
    /\ trace[p] = <<>>

\* The request declares the fee-sponsorship token.
DeclaresFeeToken(params, token) ==
  /\ "capabilities" \in DOMAIN params
  /\ "meta" \in DOMAIN params.capabilities
  /\ "feeToken" \in DOMAIN params.capabilities.meta
  /\ params.capabilities.meta.feeToken = token

\* C21: every wallet_prepareCalls request of PortoClient and of simple-porto
\* carries capabilities.meta.feeToken, set to the sentinel address
\* 0x0000000000000000000000000000000000000000 both configure.
C21_PrepareCallsDeclaresFeeToken ==
  \A p \in Procs : \A i \in 1..Len(trace[p]) :
    trace[p][i].method = "wallet_prepareCalls" =>
      DeclaresFeeToken(trace[p][i].params,
                       "0x0000000000000000000000000000000000000000")

\* Both PortoClient.executeTransaction and simple-porto sendTransaction have
\* sent a wallet_prepareCalls request.
C21_Witness ==
  /\ proc["p2"].op = "executeTransaction" /\ Len(trace["p2"]) >= 1
  /\ trace["p2"][1].method = "wallet_prepareCalls"
  /\ proc["p3"].op = "sendTransaction" /\ Len(trace["p3"]) >= 1
  /\ trace["p3"][1].method = "wallet_prepareCalls"
  /\ trace["p3"][1].params.capabilities.meta.feeToken = SimpleFeeToken

\* The string is the decimal notation of the natural number n.
IsDecimalOf(str, n) ==
  /\ str # None /\ str.t = "str" /\ str.chars # <<>>
  /\ \A i \in 1..Len(str.chars) : IsDigit(str.chars[i])
  /\ Len(str.chars) > 1 => str.chars[1] # "0"
  /\ parseInt(str) = Num(n)

IsLowerOf(lo, c) ==
  \/ lo = c /\ c \notin {"A", "B", "C", "D", "E", "F"}
  \/ <<lo, c>> \in {<<"a", "A">>, <<"b", "B">>, <<"c", "C">>,
                    <<"d", "D">>, <<"e", "E">>, <<"f", "F">>}

\* The hex digits of an address: what follows its two-character prefix.
HexDigits(a) == SubSeq(a.chars, 3, Len(a.chars))

\* C23: for an address with fewer than 64 hex digits after "0x",
\* serializePublicKey returns 66 characters: "0x", then zeros, then the
\* lower-cased digits of the address, 64 digits in all.
C23_ShortAddressPaddedTo66 ==
  (keyIn # None /\ keyOut # <<>> /\ Len(HexDigits(keyIn)) < 64) =>
    LET out == keyOut[1].chars
        digits == HexDigits(keyIn)
        zeros == 64 - Len(digits)
    IN /\ Len(out) = 66
       /\ out[1] = "0" /\ out[2] = "x"
       /\ \A i \in 1..zeros : out[2 + i] = "0"
       /\ \A i \in 1..Len(digits) : IsLowerOf(out[2 + zeros + i], digits[i])

\* A 40-digit address with upper-case digits was serialized.
C23_Witness ==
  /\ keyIn # None /\ keyOut # <<>>
  /\ Len(HexDigits(keyIn)) = AddressDigits
  /\ \E i \in 1..AddressDigits : HexDigits(keyIn)[i] \in {"A", "C", "D", "F"}
  /\ Len(keyOut[1].chars) = 66

\* C24: serializePublicKey applied to its own result returns that result,
\* and an address of 64 or more hex digits is returned lower-cased and
\* otherwise unchanged.
C24_SerializeIdempotent ==
  /\ Len(keyOut) = 2 => keyOut[2] = keyOut[1]
  /\ (keyIn # None /\ keyOut # <<>> /\ Len(HexDigits(keyIn)) >= 64) =>
       /\ Len(keyOut[1].chars) = Len(keyIn.chars)
       /\ keyOut[1].chars[1] = "0" /\ keyOut[1].chars[2] = "x"
       /\ \A i \in 1..Len(HexDigits(keyIn)) :
            IsLowerOf(HexDigits(keyOut[1])[i], HexDigits(keyIn)[i])

\* An address of more than 64 digits, upper-case ones among them, was
\* serialized twice.
C24_Witness ==
  /\ keyIn # None /\ Len(keyOut) = 2
  /\ Len(HexDigits(keyIn)) > 64
  /\ \E i \in 1..Len(HexDigits(keyIn)) : HexDigits(keyIn)[i] \in {"A", "C", "D", "F"}

\* C25: checkHealth never rejects; it resolves to true exactly when the
\* relay answered `health` with the result "healthy" and no error, and to
\* false for any other result, relay error or transport failure, on an
\* initialized and on an uninitialized client alike.
C25_CheckHealthNeverThrows ==
  \A p \in Procs :
    Finished(p, "checkHealth") =>
      /\ Len(trace[p]) = 1 /\ trace[p][1].method = "health"
      /\ LET r == trace[p][1].resp
         IN proc[p].result =
              Resolved(Bool(/\ r.net = "ok" /\ r.httpOk /\ ~r.hasError
                            /\ r.result = [t |-> "string", s |-> "healthy"]))

\* checkHealth on a client without account resolved to true.
C25_Witness ==
  \E p \in Procs :
    /\ Finished(p, "checkHealth")
    /\ pre[p].client[proc[p].mgr] = None
    /\ proc[p].result = Resolved(Bool(TRUE))

\* The bundle id in a wallet_sendPreparedCalls result: its `id` member, or
\* the result itself when it is a bare string.
RelayBundleId(result) == IF result.t = "sendResult" THEN result.id ELSE result

C27_SessionOpsKeepMainKey ==
  [][\A p \in Procs :
       (proc'[p] # proc[p] /\ proc'[p].op \in {"createSessionKey", "clearSession"}) =>
         /\ store'[MAIN_WALLET_KEY] = store[MAIN_WALLET_KEY]
         /\ mgr'[proc'[p].mgr].mainAccount = mgr[proc'[p].mgr].mainAccount
    ]_<<wvars, svars, porto, kvars>>

\* createSessionKey replaced an expired session on a manager that holds a
\* main key.
C27_Witness ==
  \E p \in Procs :
    /\ FoundExpiredSession(p) /\ fx[p].gens = 1
    /\ store[MAIN_WALLET_KEY] # None
    /\ store[MAIN_WALLET_KEY] = pre[p].store[MAIN_WALLET_KEY]
    /\ mgr[proc[p].mgr].mainAccount # None

\* A setupDelegation call on an initialized client begins with a
\* wallet_prepareUpgradeAccount request for the client's account, and its
\* wallet_upgradeAccount request carries the context and the signed digests
\* of the response to that request.
StartsFromStepOne(p) ==
  /\ Len(trace[p]) >= 1
  /\ trace[p][1].method = "wallet_prepareUpgradeAccount"
  /\ trace[p][1].params.address = pre[p].client[proc[p].mgr].address
  /\ Len(trace[p]) >= 2 =>
       /\ trace[p][2].method = "wallet_upgradeAccount"
       /\ RelaySucceeded(trace[p][1].resp)
       /\ trace[p][2].params.context = trace[p][1].resp.result.context
       /\ trace[p][2].params.signatures.auth.over = trace[p][1].resp.result.digests.auth
       /\ trace[p][2].params.signatures.exec.over = trace[p][1].resp.result.digests.exec

\* C28: no step of a PortoClient.setupDelegation call, failing or not,
\* changes the client, the manager or the store, and every call, a call
\* after a failed one included, starts with its own
\* wallet_prepareUpgradeAccount request and uses only the context and
\* digests of the response to it.
C28_SetupDelegationRetriable ==
  /\ [](\A p \in Procs :
         (proc[p].op = "setupDelegation" /\ pre[p].client[proc[p].mgr] # None) =>
           StartsFromStepOne(p))
  /\ [][\A p \in Procs :
         (proc'[p] # proc[p] /\ proc'[p].op = "setupDelegation") =>
           (client' = client /\ mgr' = mgr /\ store' = store)
      ]_<<wvars, svars, porto, kvars>>

\* The first call prepared "ctx1" and failed at wallet_upgradeAccount; the
\* second prepared "ctx2", submitted it and succeeded.
C28_Witness ==
  /\ Finished("p2", "setupDelegation") /\ Finished("p3", "setupDelegation")
  /\ proc["p2"].result = Resolved(Bool(FALSE))
  /\ Len(trace["p2"]) = 2 /\ trace["p2"][1].resp.result.context = "ctx1"
  /\ proc["p3"].result = Resolved(Bool(TRUE))
  /\ Len(trace["p3"]) = 2 /\ trace["p3"][2].params.context = "ctx2"
  /\ pre["p3"].client = pre["p2"].client

\* The call of q ran a delegation handshake that authorized the key of the
\* given address and both of its requests succeeded.
AuthorizedBy(q, addr) ==
  /\ Len(trace[q]) = 2
  /\ trace[q][1].method = "wallet_prepareUpgradeAccount"
  /\ trace[q][2].method = "wallet_upgradeAccount"
  /\ RelaySucceeded(trace[q][1].resp) /\ RelaySucceeded(trace[q][2].resp)
  /\ Len(trace[q][1].params.capabilities.authorizeKeys) = 1
  /\ trace[q][1].params.capabilities.authorizeKeys[1].publicKey =
       serializePublicKey(addr)

\* C29: when createSessionKey returns a key on the reuse path, without a
\* handshake of its own, an earlier call completed a handshake that
\* authorized that key.
C29_ReusedKeyWasAuthorized ==
  \A p \in Procs :
    (/\ Finished(p, "createSessionKey")
     /\ proc[p].result.kind = "resolved"
     /\ fx[p] = NoFx /\ trace[p] = <<>>) =>
      \E q \in Procs \ {p} : AuthorizedBy(q, proc[p].result.val)

\* C30: once resetAll has completed, the PortoClient of the manager holds
\* no account, so that setupDelegation, prepareCalls and sendPreparedCalls
\* reject until initMainWallet runs again, and no request is signed by the
\* deleted key.
C30_ResetAllLeavesClientNotReady ==
  /\ JustFinished("resetAll") =>
       /\ store[MAIN_WALLET_KEY] = None
       /\ client[lastDone.mgr] = None
  /\ \A p \in Procs : \A i \in 1..Len(trace[p]) :
       (trace[p][i].method = "wallet_upgradeAccount"
          /\ proc[p].op = "createSessionKey" /\ pre[p].store[MAIN_WALLET_KEY] = None) =>
         trace[p][i].params.signatures.auth.by = store[MAIN_WALLET_KEY]

\* C31: whenever no operation is in progress, each manager either holds no
\* session, or holds the key persisted as RISE_SESSION_KEY and the expiry
\* persisted, in decimal, as RISE_SESSION_EXPIRY.
C31_MemorySessionAgreesWithStore ==
  AllQuiet =>
    \A m \in Mgrs :
      \/ mgr[m].sessionAccount = None
      \/ /\ store[SESSION_KEY] = mgr[m].sessionAccount.pk
         /\ IsDecimalOf(store[SESSION_EXPIRY], mgr[m].sessionExpiry)

\* createSessionKey rejected because its delegation call threw, and left a
\* session in memory.
C31_Witness ==
  /\ JustFinished("createSessionKey")
  /\ lastDone.result = Rejected(NotInitialized)
  /\ mgr[lastDone.mgr].sessionAccount # None
  /\ store[SESSION_KEY] # None

\* C32: in every state, between the awaits of a call included, a manager's
\* session account is null exactly when its session expiry is 0, so that
\* isSessionValid() implies a non-null getSessionAddress().
C32_SessionAccountNullIffExpiryZero ==
  \A m \in Mgrs :
    /\ (mgr[m].sessionAccount = None) <=> (mgr[m].sessionExpiry = 0)
    /\ isSessionValid(m) => getSessionAddress(m) # None

\* clearSession has deleted the key entry and not yet the expiry entry, on a
\* manager that still reports a valid session.
C32_Witness ==
  \E p \in Procs :
    /\ proc[p].op = "clearSession" /\ proc[p].pc = "clDelExp"
    /\ isSessionValid(proc[p].mgr)
    /\ getSessionAddress(proc[p].mgr) # None

\* C33: whatever the store held when it began, a Porto.init none of whose
\* relay calls failed resolves, with a main account and a session account
\* set and the session key and expiry it holds equal to the persisted ones.
C33_PortoInitCompletesConsistent ==
  \A p \in Procs :
    (/\ Finished(p, "Porto.init")
     /\ \A i \in 1..Len(trace[p]) : RelaySucceeded(trace[p][i].resp)) =>
      /\ proc[p].result.kind = "resolved"
      /\ porto.mainAccount # None /\ porto.sessionAccount # None
      /\ store[MAIN_WALLET_KEY] = porto.mainAccount.pk
      /\ store[SESSION_KEY] = porto.sessionAccount.pk
      /\ store[SESSION_EXPIRY] # None
      /\ parseInt(store[SESSION_EXPIRY]) = porto.sessionExpiry

\* C34: while a rotateSessionKey call is between its awaits and the session
\* address is still that of the key persisted when the call began, the
\* expiry the singleton reports is the expiry persisted for that key.
C34_RotateKeepsAddressAndExpiryTogether ==
  \A p \in Procs :
    (/\ proc[p].op = "Porto.rotateSessionKey"
     /\ proc[p].pc \in {"prWriteKey", "prWriteExp"}
     /\ porto.sessionAccount # None
     /\ porto.sessionAccount.pk = pre[p].store[SESSION_KEY]
     /\ pre[p].store[SESSION_EXPIRY] # None) =>
      porto.sessionExpiry = parseInt(pre[p].store[SESSION_EXPIRY])

C36_OneKeyPerSubmission ==
  \A p \in Procs : \A i \in 2..Len(trace[p]) :
    (/\ trace[p][i].method = "wallet_sendPreparedCalls"
     /\ trace[p][i - 1].method = "wallet_prepareCalls") =>
      /\ trace[p][i - 1].params.key.publicKey =
           serializePublicKey(Address(trace[p][i].params.signature.by))
      /\ "key" \in DOMAIN trace[p][i].params =>
           trace[p][i].params.key = trace[p][i - 1].params.key

\* The relay answered the i-th request of a transaction with a result.
GaveResult(tr, i) ==
  Len(tr) >= i /\ RelaySucceeded(tr[i].resp) /\ tr[i].resp.result # None

\* C37: PortoClient.executeTransaction sends at most one
\* wallet_getCallsStatus request, after the two submission requests; once
\* wallet_prepareCalls and wallet_sendPreparedCalls were both answered with
\* a result it resolves with the bundle id of the second answer and with
\* the status the relay gave, or no status when the status request failed;
\* a relay or transport error in either submission request rejects with
\* the error rpcCall raised for it.
C37_ExecuteTransactionResolvesWithBundleId ==
  \A p \in Procs : proc[p].op = "executeTransaction" =>
    LET tr == trace[p]
        res == proc[p].result
    IN /\ Len(tr) <= 3
       /\ \A i \in 1..Len(tr) :
            tr[i].method = "wallet_getCallsStatus" => i = 3 /\ tr[i].n = 1
       /\ (proc[p].pc = "done" /\ GaveResult(tr, 1) /\ GaveResult(tr, 2)) =>
            /\ Len(tr) = 3
            /\ res.kind = "resolved"
            /\ res.val.bundleId =
                 (IF tr[2].resp.result.t = "sendResult"
                    THEN tr[2].resp.result.id ELSE tr[2].resp.result)
            /\ res.val.bundleId = tr[3].params
            /\ res.val.status =
                 (IF RelaySucceeded(tr[3].resp) THEN tr[3].resp.result ELSE None)
       /\ \A i \in 1..2 :
            (/\ proc[p].pc = "done" /\ Len(tr) = i
             /\ (IsTransportFailure(tr[i].resp) \/ tr[i].resp.hasError)) =>
              /\ res.kind = "rejected"
              /\ res.val = rpcCall(tr[i].resp).val

\* executeTransaction resolved with a bare-string bundle id and without
\* status after its status request met a relay error.
C37_Witness ==
  /\ Finished("p2", "executeTransaction")
  /\ Len(trace["p2"]) = 3
  /\ trace["p2"][2].resp = RelayOk(OpaqueString("0xbareid"))
  /\ trace["p2"][3].resp = RelayErr("Unknown bundle")
  /\ proc["p2"].result = Resolved(TxResult(OpaqueString("0xbareid"), None))

vars == <<wvars, svars, porto, kvars>>

Init == WaitInit /\ SessionInit /\ PortoInit /\ keyIn = None /\ keyOut = <<>>

WaitNext ==
  \/ \E impl \in {"client", "simple"}, b \in BundleIds, n \in 1..MaxAttempts :
       waitForTransaction(impl, b, n)
  \/ \E r \in PollResponses : ClientPoll(r)
  \/ \E r \in PollResponses : SimplePoll(r)

\* One call at a time: a call begins only when no other is in progress.
SessionNext ==
  \/ AllQuiet /\ initMainWallet("p1", "home")
  \/ AllQuiet /\ createSessionKey("p1", "home")
  \/ AllQuiet /\ clearSession("p1", "home")
  \/ AllQuiet /\ resetAll("p1", "home")
  \/ \E c \in ConfigUpdates : AllQuiet /\ updateConfig("p1", "home", c)
  \/ Tick(24 * HourMs)
  \/ \E p \in Procs : IM_ReadDone(p)
  \/ \E p \in Procs : IM_WriteDone(p)
  \/ \E p \in Procs : CS_ReadKeyDone(p)
  \/ \E p \in Procs : CS_ReadExpDone(p)
  \/ \E p \in Procs : CS_WriteKeyDone(p)
  \/ \E p \in Procs : CS_WriteExpDone(p)
  \/ \E p \in Procs, r \in PrepareUpgradeResponses : SD_PrepareDone(p, r)
  \/ \E p \in Procs, r \in UpgradeResponses : SD_UpgradeDone(p, r)
  \/ \E p \in Procs : RA_DelMainDone(p)
  \/ \E p \in Procs : CL_DelKeyDone(p)
  \/ \E p \in Procs : CL_DelExpDone(p)

Spec == Init /\ [][SessionNext]_vars

\* Calls may overlap at their await points, on one SessionManager or on the
\* two that share the store; each of the three callers makes one call.
ConcNext ==
  \/ \E p \in Procs, m \in Mgrs : proc[p].pc = "idle" /\ initMainWallet(p, m)
  \/ \E p \in Procs, m \in Mgrs : proc[p].pc = "idle" /\ createSessionKey(p, m)
  \/ \E p \in Procs : IM_ReadDone(p)
  \/ \E p \in Procs : IM_WriteDone(p)
  \/ \E p \in Procs : CS_ReadKeyDone(p)
  \/ \E p \in Procs : CS_ReadExpDone(p)
  \/ \E p \in Procs : CS_WriteKeyDone(p)
  \/ \E p \in Procs : CS_WriteExpDone(p)
  \/ \E p \in Procs : SD_PrepareDone(p, RelayOk(PrepareUpgradeResult("ctx1", "0xauthdigest", "0xexecdigest")))
  \/ \E p \in Procs : SD_UpgradeDone(p, RelayOk([t |-> "ack"]))

SpecConc == Init /\ [][ConcNext]_vars

\* The keys setupDelegation may be asked to authorize as admin.
AdminKeyAddresses == {None, Address(PrivateKey(MaxKeys))}

\* The delegation handshakes of PortoClient (called directly or through
\* SessionManager.createSessionKey) and of the Porto singleton, one call at
\* a time: one caller initializes the main wallet, one makes a PortoClient
\* handshake, one initializes the Porto singleton and then repeats its
\* handshake.
DelegNext ==
  \/ AllQuiet /\ proc["p1"].pc = "idle" /\ initMainWallet("p1", "home")
  \/ AllQuiet /\ proc["p2"].pc = "idle" /\ createSessionKey("p2", "home")
  \/ \E a \in AdminKeyAddresses :
       AllQuiet /\ proc["p2"].pc = "idle" /\ setupDelegation("p2", "home", a)
  \/ AllQuiet /\ proc["p3"].pc = "idle" /\ PortoInitCall("p3")
  \/ AllQuiet /\ proc["p3"].op # "Porto.setupDelegation" /\ PortoSetupDelegation("p3")
  \/ AllQuiet /\ proc["p3"].op = "Porto.init" /\ PortoRotateSessionKey("p3")
  \/ Tick(24 * HourMs)
  \/ \E p \in Procs : IM_ReadDone(p)
  \/ \E p \in Procs : IM_WriteDone(p)
  \/ \E p \in Procs : CS_ReadKeyDone(p)
  \/ \E p \in Procs : CS_ReadExpDone(p)
  \/ \E p \in Procs : CS_WriteKeyDone(p)
  \/ \E p \in Procs : CS_WriteExpDone(p)
  \/ \E p \in Procs, r \in PrepareUpgradeResponses : SD_PrepareDone(p, r)
  \/ \E p \in Procs, r \in UpgradeResponses : SD_UpgradeDone(p, r)
  \/ \E p \in Procs : PI_ReadMainDone(p)
  \/ \E p \in Procs : PI_WriteMainDone(p)
  \/ \E p \in Procs : PI_ReadKeyDone(p)
  \/ \E p \in Procs : PI_ReadExpDone(p)
  \/ \E p \in Procs : PI_WriteKeyDone(p)
  \/ \E p \in Procs : PI_WriteExpDone(p)
  \/ \E p \in Procs : PR_WriteKeyDone(p)
  \/ \E p \in Procs : PR_WriteExpDone(p)
  \/ \E p \in Procs, r \in CapabilitiesResponses : PD_CapsDone(p, r)
  \/ \E p \in Procs, r \in PrepareUpgradeResponses : PD_PrepareDone(p, r)
  \/ \E p \in Procs, r \in UpgradeResponses : PD_UpgradeDone(p, r)

SpecDeleg == Init /\ [][DelegNext]_vars

\* The accounts a caller of simple-porto holds.
SimpleAccounts == {privateKeyToAccount(PrivateKey(k)) : k \in 1..2}

\* Transaction submission through PortoClient.executeTransaction and through
\* simple-porto sendTransaction, one call at a time; each of the
\* three callers makes one call.
TxNext ==
  \/ AllQuiet /\ proc["p1"].pc = "idle" /\ initMainWallet("p1", "home")
  \/ \E c \in Calls :
       AllQuiet /\ proc["p2"].pc = "idle" /\ executeTransaction("p2", "home", c)
  \/ \E a \in AdminKeyAddresses :
       AllQuiet /\ proc["p2"].pc = "idle" /\ setupDelegation("p2", "home", a)
  \/ \E a \in SimpleAccounts, c \in Calls :
       AllQuiet /\ proc["p3"].pc = "idle" /\ sendTransaction("p3", a, c)
  \/ \E a \in SimpleAccounts, u \in PreparedUpgrades :
       AllQuiet /\ proc["p3"].pc = "idle" /\ upgradeAccount("p3", a, u)
  \/ \E p \in Procs : IM_ReadDone(p)
  \/ \E p \in Procs : IM_WriteDone(p)
  \/ \E p \in Procs, r \in PrepareUpgradeResponses : SD_PrepareDone(p, r)
  \/ \E p \in Procs, r \in UpgradeResponses : SD_UpgradeDone(p, r)
  \/ \E p \in Procs, r \in PrepareCallsResponses : ET_PrepareDone(p, r)
  \/ \E p \in Procs, r \in SendResponses : ET_SendDone(p, r)
  \/ \E p \in Procs, r \in StatusResponses : ET_StatusDone(p, r)
  \/ \E p \in Procs, r \in PrepareCallsResponses : ST_PrepareDone(p, r)
  \/ \E p \in Procs, r \in SendResponses : ST_SendDone(p, r)
  \/ \E p \in Procs, r \in StatusResponses : ST_PollDone(p, r)
  \/ \E p \in Procs, r \in UpgradeResponses : SU_UpgradeDone(p, r)

SpecTx == Init /\ [][TxNext]_vars

\* Transaction submission through the Porto singleton, one call at a time:
\* one caller initializes it, one sends a transaction.
PortoTxNext ==
  \/ AllQuiet /\ proc["p1"].pc = "idle" /\ PortoInitCall("p1")
  \/ \E c \in Calls :
       AllQuiet /\ proc["p2"].pc = "idle" /\ PortoSendTransaction("p2", c)
  \/ \E p \in Procs : PI_ReadMainDone(p)
  \/ \E p \in Procs : PI_WriteMainDone(p)
  \/ \E p \in Procs : PI_ReadKeyDone(p)
  \/ \E p \in Procs : PI_ReadExpDone(p)
  \/ \E p \in Procs : PI_WriteKeyDone(p)
  \/ \E p \in Procs : PI_WriteExpDone(p)
  \/ \E p \in Procs, r \in CapabilitiesResponses : PD_CapsDone(p, r)
  \/ \E p \in Procs, r \in PrepareUpgradeResponses : PD_PrepareDone(p, r)
  \/ \E p \in Procs, r \in UpgradeResponses : PD_UpgradeDone(p, r)
  \/ \E p \in Procs, r \in PrepareCallsResponses : PT_PrepareDone(p, r)
  \/ \E p \in Procs, r \in SendResponses : PT_SendDone(p, r)
  \/ \E p \in Procs, r \in StatusResponses : PT_PollDone(p, r)

SpecPortoTx == Init /\ [][PortoTxNext]_vars

\* The SessionManager of HomeScreen across restarts of the app, one call at
\* a time; a restart may interrupt a call at any await.
RestartNext ==
  \/ AllQuiet /\ initMainWallet("p1", "home")
  \/ AllQuiet /\ createSessionKey("p1", "home")
  \/ Tick(24 * HourMs)
  \/ Restart
  \/ \E p \in Procs : IM_ReadDone(p)
  \/ \E p \in Procs : IM_WriteDone(p)
  \/ \E p \in Procs : CS_ReadKeyDone(p)
  \/ \E p \in Procs : CS_ReadExpDone(p)
  \/ \E p \in Procs : CS_WriteKeyDone(p)
  \/ \E p \in Procs : CS_WriteExpDone(p)
  \/ \E p \in Procs, r \in PrepareUpgradeResponses : SD_PrepareDone(p, r)
  \/ \E p \in Procs, r \in UpgradeResponses : SD_UpgradeDone(p, r)

SpecRestart == Init /\ [][RestartNext]_vars

\* Clearing and resetting, one call at a time: the SessionManager of
\* HomeScreen is set up and cleared repeatedly; the Porto singleton is
\* initialized once and reset once. The relay accepts every handshake.
ClearNext ==
  \/ AllQuiet /\ initMainWallet("p1", "home")
  \/ AllQuiet /\ createSessionKey("p1", "home")
  \/ AllQuiet /\ clearSession("p1", "home")
  \/ AllQuiet /\ resetAll("p1", "home")
  \/ AllQuiet /\ proc["p3"].pc = "idle" /\ PortoInitCall("p3")
  \/ AllQuiet /\ proc["p3"].op = "Porto.init" /\ PortoReset("p3")
  \/ \E p \in Procs : IM_ReadDone(p)
  \/ \E p \in Procs : IM_WriteDone(p)
  \/ \E p \in Procs : CS_ReadKeyDone(p)
  \/ \E p \in Procs : CS_ReadExpDone(p)
  \/ \E p \in Procs : CS_WriteKeyDone(p)
  \/ \E p \in Procs : CS_WriteExpDone(p)
  \/ \E p \in Procs :
       SD_PrepareDone(p, RelayOk(PrepareUpgradeResult("ctx1", "0xauthdigest", "0xexecdigest")))
  \/ \E p \in Procs : SD_UpgradeDone(p, RelayOk([t |-> "ack"]))
  \/ \E p \in Procs : RA_DelMainDone(p)
  \/ \E p \in Procs : CL_DelKeyDone(p)
  \/ \E p \in Procs : CL_DelExpDone(p)
  \/ \E p \in Procs : PI_ReadMainDone(p)
  \/ \E p \in Procs : PI_WriteMainDone(p)
  \/ \E p \in Procs : PI_ReadKeyDone(p)
  \/ \E p \in Procs : PI_ReadExpDone(p)
  \/ \E p \in Procs : PI_WriteKeyDone(p)
  \/ \E p \in Procs : PI_WriteExpDone(p)
  \/ \E p \in Procs : PD_CapsDone(p, RelayOk([t |-> "capabilities"]))
  \/ \E p \in Procs : RS_DelMainDone(p)
  \/ \E p \in Procs : RS_DelKeyDone(p)
  \/ \E p \in Procs : RS_DelExpDone(p)

SpecClear == Init /\ [][ClearNext]_vars

\* Direct use of one PortoClient, before and after its owner initializes
\* it: one caller initializes the manager, one calls setupDelegation or
\* executeTransaction, one calls prepareCalls, sendPreparedCalls or
\* checkHealth.
ClientCallsNext ==
  \/ AllQuiet /\ proc["p1"].pc = "idle" /\ initMainWallet("p1", "home")
  \/ \E a \in AdminKeyAddresses :
       AllQuiet /\ proc["p2"].pc = "idle" /\ setupDelegation("p2", "home", a)
  \/ \E c \in Calls :
       AllQuiet /\ proc["p2"].pc = "idle" /\ executeTransaction("p2", "home", c)
  \/ \E c \in Calls :
       AllQuiet /\ proc["p3"].pc = "idle" /\ prepareCalls("p3", "home", <<c>>)
  \/ \E c \in PreparedCalls :
       AllQuiet /\ proc["p3"].pc = "idle"
                /\ sendPreparedCalls("p3", "home", c.context, c.digest)
  \/ \E p \in Procs : IM_ReadDone(p)
  \/ \E p \in Procs : IM_WriteDone(p)
  \/ \E p \in Procs, r \in PrepareUpgradeResponses : SD_PrepareDone(p, r)
  \/ \E p \in Procs, r \in UpgradeResponses : SD_UpgradeDone(p, r)
  \/ \E p \in Procs, r \in PrepareCallsResponses : ET_PrepareDone(p, r)
  \/ \E p \in Procs, r \in SendResponses : ET_SendDone(p, r)
  \/ \E p \in Procs, r \in StatusResponses : ET_StatusDone(p, r)
  \/ \E p \in Procs, r \in PrepareCallsResponses : PC_PrepareDone(p, r)
  \/ \E p \in Procs, r \in SendResponses : SP_SendDone(p, r)
  \/ AllQuiet /\ proc["p3"].pc = "idle" /\ checkHealth("p3", "home")
  \/ \E p \in Procs, r \in HealthResponses : CH_HealthDone(p, r)

SpecClientCalls == Init /\ [][ClientCallsNext]_vars

\* serializePublicKey on each of the addresses.
SerializeInit ==
  WaitInit /\ SessionInit /\ PortoInit /\ keyIn \in Addresses /\ keyOut = <<>>

SpecSerialize == SerializeInit /\ [][Serialize]_vars

\* Delegation setup tried twice on one PortoClient: one caller initializes
\* the manager, a second calls setupDelegation, and once that call is over a
\* third calls it again.
RetryNext ==
  \/ AllQuiet /\ proc["p1"].pc = "idle" /\ initMainWallet("p1", "home")
  \/ \E a \in AdminKeyAddresses :
       AllQuiet /\ proc["p2"].pc = "idle" /\ setupDelegation("p2", "home", a)
  \/ \E a \in AdminKeyAddresses :
       /\ AllQuiet /\ proc["p2"].pc = "done" /\ proc["p3"].pc = "idle"
       /\ setupDelegation("p3", "home", a)
  \/ \E p \in Procs : IM_ReadDone(p)
  \/ \E p \in Procs : IM_WriteDone(p)
  \/ \E p \in Procs, r \in PrepareUpgradeResponses : SD_PrepareDone(p, r)
  \/ \E p \in Procs, r \in UpgradeResponses : SD_UpgradeDone(p, r)

SpecRetry == Init /\ [][RetryNext]_vars

\* A session key created and then asked for again: one caller initializes
\* the manager, a second calls createSessionKey, and once that call is over
\* a third calls it again, while the clock advances.
ReuseNext ==
  \/ AllQuiet /\ proc["p1"].pc = "idle" /\ initMainWallet("p1", "home")
  \/ AllQuiet /\ proc["p2"].pc = "idle" /\ createSessionKey("p2", "home")
  \/ /\ AllQuiet /\ proc["p2"].pc = "done" /\ proc["p3"].pc = "idle"
     /\ createSessionKey("p3", "home")
  \/ Tick(24 * HourMs)
  \/ \E p \in Procs : IM_ReadDone(p)
  \/ \E p \in Procs : IM_WriteDone(p)
  \/ \E p \in Procs : CS_ReadKeyDone(p)
  \/ \E p \in Procs : CS_ReadExpDone(p)
  \/ \E p \in Procs : CS_WriteKeyDone(p)
  \/ \E p \in Procs : CS_WriteExpDone(p)
  \/ \E p \in Procs, r \in PrepareUpgradeResponses : SD_PrepareDone(p, r)
  \/ \E p \in Procs, r \in UpgradeResponses : SD_UpgradeDone(p, r)

SpecReuse == Init /\ [][ReuseNext]_vars

\* The Porto singleton across restarts of the application: init runs, the
\* clock advances, and the application may be stopped and started again at
\* any point, which keeps the store and nothing else.
PortoRestartNext ==
  \/ AllQuiet /\ PortoInitCall("p3")
  \/ Tick(24 * HourMs)
  \/ Restart
  \/ \E p \in Procs : PI_ReadMainDone(p)
  \/ \E p \in Procs : PI_WriteMainDone(p)
  \/ \E p \in Procs : PI_ReadKeyDone(p)
  \/ \E p \in Procs : PI_ReadExpDone(p)
  \/ \E p \in Procs : PI_WriteKeyDone(p)
  \/ \E p \in Procs : PI_WriteExpDone(p)
  \/ \E p \in Procs, r \in CapabilitiesResponses : PD_CapsDone(p, r)
  \/ \E p \in Procs, r \in PrepareUpgradeResponses : PD_PrepareDone(p, r)
  \/ \E p \in Procs, r \in UpgradeResponses : PD_UpgradeDone(p, r)

SpecPortoRestart == Init /\ [][PortoRestartNext]_vars

\* The Porto singleton used from two screens: after init, one caller sends
\* a transaction while another rotates the session key; their awaits
\* interleave freely. The relay reports the account as delegated.
PortoRaceNext ==
  \/ AllQuiet /\ proc["p1"].pc = "idle" /\ PortoInitCall("p1")
  \/ \E c \in Calls :
       /\ proc["p1"].pc = "done" /\ proc["p2"].pc = "idle"
       /\ PortoSendTransaction("p2", c)
  \/ proc["p1"].pc = "done" /\ proc["p3"].pc = "idle" /\ PortoRotateSessionKey("p3")
  \/ \E p \in Procs : PI_ReadMainDone(p)
  \/ \E p \in Procs : PI_WriteMainDone(p)
  \/ \E p \in Procs : PI_ReadKeyDone(p)
  \/ \E p \in Procs : PI_ReadExpDone(p)
  \/ \E p \in Procs : PI_WriteKeyDone(p)
  \/ \E p \in Procs : PI_WriteExpDone(p)
  \/ \E p \in Procs : PR_WriteKeyDone(p)
  \/ \E p \in Procs : PR_WriteExpDone(p)
  \/ \E p \in Procs : PD_CapsDone(p, RelayOk([t |-> "capabilities"]))
  \/ \E p \in Procs, r \in PrepareCallsResponses : PT_PrepareDone(p, r)
  \/ \E p \in Procs, r \in SendResponses : PT_SendDone(p, r)
  \/ \E p \in Procs, r \in StatusResponses : PT_PollDone(p, r)

SpecPortoRace == Init /\ [][PortoRaceNext]_vars

SpecWait == Init /\ [][WaitNext]_vars

\* Every wallet_getCallsStatus request is eventually answered and every
\* delay between polls elapses.
SpecWaitFair ==
  /\ SpecWait
  /\ WF_vars(\E r \in PollResponses : ClientPoll(r))
  /\ WF_vars(\E r \in PollResponses : SimplePoll(r))
====
